---- MODULE Spec2Model ----
(***************************************************************************)
(* A model of the WebGPU abstraction layer of npr-sandbox                  *)
(* (core/webgpu-context.ts, its scenes and the UI shell).                  *)
(*                                                                         *)
(* The module holds one state machine per part of the program:             *)
(*   Spec            WebGPUContext.create, called concurrently             *)
(*   SpecBindGroup   _createUniformBindGroup                               *)
(*   SpecBuffer      _createGPUBuffer                                      *)
(*   SpecTarget      _createRenderTarget                                   *)
(*   SpecGaussian    render_gaussian_blur                                  *)
(*   SpecWatercolor  the five passes of the watercolor renderer            *)
(*   SpecObjModel    the frame loop of render_obj_model                    *)
(*   SpecAnimated    the animated renderers: render_obj_model,             *)
(*                   render_video_texture, render_video_image_render_obj   *)
(*   SpecKernel      the kernel weights of render_gaussian_blur            *)
(*   SpecApp         App: renderers started by the selection of effects    *)
(*   SpecLoader      VideoLoader.create                                    *)
(*   SpecText        render_text                                           *)
(* Every machine owns a group of variables and leaves the others alone.    *)
(***************************************************************************)
EXTENDS Integers, Sequences, FiniteSets, TLC

VARIABLES
    \* ---- WebGPUContext.create ----
    gpu,          \* navigator.gpu is present
    instance,     \* WebGPUContext._instance: 0 (unset) or an index of instances
    instances,    \* every WebGPUContext constructed so far, in order
    pc,           \* where each call of create stands
    options,      \* the options each call was given
    result,       \* what each call returned
    steps,        \* the platform requests each call has made
    gpuAtStart,   \* navigator.gpu as each call found it when it started
    \* ---- _createUniformBindGroup ----
    bgInputs,     \* the descriptor list the call is given
    bgResult,     \* what the call returned
    \* ---- _createGPUBuffer ----
    buffers,      \* the GPUBuffers of the device, in order of creation
    bufData,      \* the payload the call is given
    bufUsage,     \* the usage flags the call is given
    bufResult,    \* how the call ended, and what it read before unmap
    \* ---- the device and the canvas ----
    textures,     \* the GPUTextures of the device, in order of creation
    canvas,       \* the canvas: its width and height attributes and its client size
    preferredFormat, \* what navigator.gpu.getPreferredCanvasFormat() returns
    window,       \* the window: its devicePixelRatio, in units of 1/Scale
    \* ---- _createRenderTarget ----
    rtArgs,       \* the arguments the call is given
    rtResult,     \* the render pass descriptor the call returned
    \* ---- the scene renderers ----
    ctx,          \* the WebGPUContext the renderer runs on: its private fields
    queue,        \* the command buffers submitted to device.queue, in order
    scene,        \* which renderer runs, and where it stands
    local,        \* the renderer's local variables that outlive a step
    pipelines,    \* the render pipelines the device has created, in order
    captures      \* the screenshots started with canvas.toBlob, in order

createVars == <<gpu, instance, instances, pc, options, result, steps, gpuAtStart>>
bgVars == <<bgInputs, bgResult>>
bufVars == <<buffers, bufData, bufUsage, bufResult>>
deviceVars == <<textures, canvas, preferredFormat, window>>
rtVars == <<rtArgs, rtResult>>
sceneVars == <<ctx, queue, scene, local, pipelines, captures>>

vars == <<createVars, bgVars, bufVars, deviceVars, rtVars, sceneVars>>

notCreateVars == <<bgVars, bufVars, deviceVars, rtVars, sceneVars>>
notBgVars == <<createVars, bufVars, deviceVars, rtVars, sceneVars>>
notBufVars == <<createVars, bgVars, deviceVars, rtVars, sceneVars>>
notRtVars == <<createVars, bgVars, bufVars, sceneVars>>
\* What no scene renderer touches.
notSceneVars == <<createVars, bgVars, bufData, bufUsage, bufResult, rtVars>>

(***************************************************************************)
(* WebGPUContext.create                                                    *)
(***************************************************************************)

\* How many calls of create the model follows.
MaxCalls == 2

Calls == 1..MaxCalls

\* The option records callers pass: the two the UI shells pass (depth-stencil
\* state with and without msaa 4) and one that differs in every field.
Undefined == -1

OptionsSet ==
    { [canvas |-> 1, primitiveState |-> "triangle-list", depthStencilState |-> TRUE,  msaa |-> 4],
      [canvas |-> 1, primitiveState |-> "triangle-list", depthStencilState |-> TRUE,  msaa |-> Undefined],
      [canvas |-> 2, primitiveState |-> "triangle-strip", depthStencilState |-> FALSE, msaa |-> 1] }

NoOptions == [canvas |-> 0, primitiveState |-> "", depthStencilState |-> FALSE, msaa |-> Undefined]

ErrUnsupported == "WebGPU not supported"
ErrAdapter == "Failed to get WebGPU adapter"
ErrDevice == "Failed to get WebGPU device"
ErrContext == "Failed to get WebGPU context"

\* WebGpuContextInitResult: both fields are optional.
NoResult == [instance |-> 0, error |-> ""]
InstanceResult(i) == [instance |-> i, error |-> ""]
ErrorResult(e) == [instance |-> 0, error |-> e]

\* The private constructor: it stores its arguments and clears the flag.
NewContext(o) ==
    [canvas |-> o.canvas, primitiveState |-> o.primitiveState,
     depthStencilState |-> o.depthStencilState, msaa |-> o.msaa,
     takeScreenshot |-> FALSE]

\* `if (WebGPUContext._instance)`
HasInstanceNever(i) == FALSE

HasInstance(i) == i # 0

Return(p, r) ==
    /\ pc' = [pc EXCEPT ![p] = "done"]
    /\ result' = [result EXCEPT ![p] = r]

\* The synchronous head of create: up to the first await.
CreateCall(p, o) ==
    /\ pc[p] = "idle"
    /\ \A q \in Calls : q < p => pc[q] # "idle"
    /\ options' = [options EXCEPT ![p] = o]
    /\ gpuAtStart' = [gpuAtStart EXCEPT ![p] = gpu]
    /\ IF HasInstance(instance)
       THEN /\ Return(p, InstanceResult(instance))
            /\ UNCHANGED steps
       ELSE IF ~gpu
       THEN /\ Return(p, ErrorResult(ErrUnsupported))
            /\ UNCHANGED steps
       ELSE /\ pc' = [pc EXCEPT ![p] = "awaitAdapter"]
            /\ steps' = [steps EXCEPT ![p] = @ \cup {"requestAdapter"}]
            /\ UNCHANGED result
    /\ UNCHANGED <<gpu, instance, instances>>
    /\ UNCHANGED notCreateVars

\* requestAdapter settles: with an adapter or with null.
AdapterResolvedUnchecked(p, adapter) ==
    /\ pc[p] = "awaitAdapter"
    /\ pc' = [pc EXCEPT ![p] = "awaitDevice"]
    /\ steps' = [steps EXCEPT ![p] =
            @ \cup (IF adapter THEN {} ELSE {"noAdapter"}) \cup {"requestDevice"}]
    /\ UNCHANGED <<result, gpu, instance, instances, options, gpuAtStart>>
    /\ UNCHANGED notCreateVars

AdapterResolved(p, adapter) ==
    /\ pc[p] = "awaitAdapter"
    /\ IF ~adapter
       THEN /\ Return(p, ErrorResult(ErrAdapter))
            /\ steps' = [steps EXCEPT ![p] = @ \cup {"noAdapter"}]
       ELSE /\ pc' = [pc EXCEPT ![p] = "awaitDevice"]
            /\ steps' = [steps EXCEPT ![p] = @ \cup {"requestDevice"}]
            /\ UNCHANGED result
    /\ UNCHANGED <<gpu, instance, instances, options, gpuAtStart>>
    /\ UNCHANGED notCreateVars

\* requestDevice settles; the rest of create runs without another await.
\* navigator.gpu.getPreferredCanvasFormat() throws when navigator.gpu is gone.
DeviceResolved(p, device, context) ==
    /\ pc[p] = "awaitDevice"
    /\ IF ~device
       THEN /\ Return(p, ErrorResult(ErrDevice))
            /\ steps' = [steps EXCEPT ![p] = @ \cup {"noDevice"}]
            /\ UNCHANGED <<instance, instances>>
       ELSE IF ~context
       THEN /\ Return(p, ErrorResult(ErrContext))
            /\ steps' = [steps EXCEPT ![p] = @ \cup {"getContext", "noContext"}]
            /\ UNCHANGED <<instance, instances>>
       ELSE IF ~gpu
       THEN /\ pc' = [pc EXCEPT ![p] = "thrown"]
            /\ steps' = [steps EXCEPT ![p] = @ \cup {"getContext"}]
            /\ UNCHANGED <<result, instance, instances>>
       ELSE /\ instances' = Append(instances, NewContext(options[p]))
            /\ instance' = Len(instances) + 1
            /\ steps' = [steps EXCEPT ![p] = @ \cup {"getContext", "configure", "construct"}]
            /\ Return(p, InstanceResult(Len(instances) + 1))
    /\ UNCHANGED <<gpu, options, gpuAtStart>>
    /\ UNCHANGED notCreateVars

\* The host gains or loses the GPU API.
GpuChange ==
    /\ gpu' = ~gpu
    /\ UNCHANGED <<instance, instances, pc, options, result, steps, gpuAtStart>>
    /\ UNCHANGED notCreateVars

CreateInit ==
    /\ gpu \in BOOLEAN
    /\ instance = 0
    /\ instances = <<>>
    /\ pc = [p \in Calls |-> "idle"]
    /\ options = [p \in Calls |-> NoOptions]
    /\ result = [p \in Calls |-> NoResult]
    /\ steps = [p \in Calls |-> {}]
    /\ gpuAtStart = [p \in Calls |-> FALSE]

\* Nothing of create has happened and nothing will: the other machines' view.
CreateIdle ==
    /\ gpu = TRUE
    /\ instance = 0
    /\ instances = <<>>
    /\ pc = [p \in Calls |-> "idle"]
    /\ options = [p \in Calls |-> NoOptions]
    /\ result = [p \in Calls |-> NoResult]
    /\ steps = [p \in Calls |-> {}]
    /\ gpuAtStart = [p \in Calls |-> FALSE]

(***************************************************************************)
(* WebGPUContext._createUniformBindGroup                                   *)
(***************************************************************************)

\* The longest descriptor list the model passes.
MaxDescriptors == 3

\* GPUShaderStage.VERTEX and GPUShaderStage.FRAGMENT
ShaderStages == {1, 2}

\* The handles of the buffers, textures and samplers the descriptors name.
Handles == {1, 2}

\* IBindGroupInput: the readonly flag is only ever set on buffers.
BindGroupInputs ==
    [type : {"buffer"}, visibility : ShaderStages, readonly : BOOLEAN, resource : Handles]
    \cup [type : {"texture", "sampler"}, visibility : ShaderStages, readonly : {FALSE},
          resource : Handles]

SeqsUpTo(S, n) == UNION {[1..k -> S] : k \in 0..n}

\* A layout entry that leaves every buffer at the default type.
LayoutEntryDefaultType(i, input) ==
    [binding |-> i, visibility |-> input.visibility, kind |-> input.type,
     bufferType |-> IF input.type = "buffer" THEN "uniform" ELSE ""]

\* The layout entry pushed for the descriptor at position i (counted from 0).
LayoutEntry(i, input) ==
    CASE input.type = "buffer" ->
            [binding |-> i, visibility |-> input.visibility, kind |-> "buffer",
             bufferType |-> IF input.readonly THEN "read-only-storage" ELSE "uniform"]
      [] input.type = "texture" ->
            [binding |-> i, visibility |-> input.visibility, kind |-> "texture",
             bufferType |-> ""]
      [] input.type = "sampler" ->
            [binding |-> i, visibility |-> input.visibility, kind |-> "sampler",
             bufferType |-> ""]

\* The bind group entry pushed for the descriptor at position i; view is the
\* number of the texture view createView() returns, were it called now.
GroupEntryOneBased(i, input, view) ==
    CASE input.type = "buffer" ->
            [binding |-> i + 1, kind |-> "buffer", resource |-> input.resource, view |-> 0]
      [] input.type = "texture" ->
            [binding |-> i + 1, kind |-> "texture", resource |-> input.resource, view |-> view]
      [] input.type = "sampler" ->
            [binding |-> i + 1, kind |-> "sampler", resource |-> input.resource, view |-> 0]

GroupEntry(i, input, view) ==
    CASE input.type = "buffer" ->
            [binding |-> i, kind |-> "buffer", resource |-> input.resource, view |-> 0]
      [] input.type = "texture" ->
            [binding |-> i, kind |-> "texture", resource |-> input.resource, view |-> view]
      [] input.type = "sampler" ->
            [binding |-> i, kind |-> "sampler", resource |-> input.resource, view |-> 0]

\* The for loop: i runs from 0 while i < bindGroupInputs.length.
RECURSIVE BindGroupLoop(_, _, _, _, _)
BindGroupLoop(inputs, i, layoutEntries, bindGroupEntries, views) ==
    IF i < Len(inputs)
    THEN LET input == inputs[i + 1]
             made == IF input.type = "texture" THEN views + 1 ELSE views
         IN  BindGroupLoop(inputs, i + 1,
                           Append(layoutEntries, LayoutEntry(i, input)),
                           Append(bindGroupEntries, GroupEntry(i, input, views + 1)),
                           made)
    ELSE [layoutEntries |-> layoutEntries, bindGroupEntries |-> bindGroupEntries,
          views |-> views]

\* IUniformBindGroup: the layout made of the layout entries, and the group
\* made with that layout and the group entries.
CreateUniformBindGroup(inputs) ==
    LET built == BindGroupLoop(inputs, 0, <<>>, <<>>, 0)
        layout == [entries |-> built.layoutEntries]
    IN  [bindGroupLayout |-> layout,
         bindGroup |-> [layout |-> layout, entries |-> built.bindGroupEntries],
         viewsCreated |-> built.views,
         returned |-> TRUE]

NoBindGroup ==
    [bindGroupLayout |-> [entries |-> <<>>],
     bindGroup |-> [layout |-> [entries |-> <<>>], entries |-> <<>>],
     viewsCreated |-> 0,
     returned |-> FALSE]

BindGroupCall ==
    /\ ~bgResult.returned
    /\ bgResult' = CreateUniformBindGroup(bgInputs)
    /\ UNCHANGED bgInputs
    /\ UNCHANGED notBgVars

BindGroupInit ==
    /\ bgInputs \in SeqsUpTo(BindGroupInputs, MaxDescriptors)
    /\ bgResult = NoBindGroup

BindGroupIdle ==
    /\ bgInputs = <<>>
    /\ bgResult = NoBindGroup

(***************************************************************************)
(* WebGPUContext._createGPUBuffer                                          *)
(***************************************************************************)

\* The longest payload the model passes, in elements.
MaxElements == 3

\* Element values, as bit patterns: 0.0, 1.0 and 0.1 for Float32Array;
\* 0, 1, 258 and 65535 for Uint16Array.
Float32Values == {0, 1065353216, 1036831949}
Uint16Values == {0, 1, 258, 65535}

Payloads ==
    [arrayType : {"Float32Array"}, elements : SeqsUpTo(Float32Values, MaxElements)]
    \cup [arrayType : {"Uint16Array"}, elements : SeqsUpTo(Uint16Values, MaxElements)]

\* The usage flags the renderers pass.
BufferUsages ==
    { {"VERTEX"}, {"INDEX"}, {"UNIFORM"}, {"STORAGE"}, {"COPY_SRC"}, {"UNIFORM", "COPY_DST"} }

\* BYTES_PER_ELEMENT
BytesPerElement(arrayType) == IF arrayType = "Float32Array" THEN 4 ELSE 2

\* data.byteLength
ByteLength(data) == Len(data.elements) * BytesPerElement(data.arrayType)

RECURSIVE Pow256(_)
Pow256(k) == IF k = 0 THEN 1 ELSE 256 * Pow256(k - 1)

\* The n bytes of an element, least significant first.
ElementBytes(v, n) == [k \in 1..n |-> (v \div Pow256(k - 1)) % 256]

RECURSIVE BytesValue(_)
BytesValue(bytes) ==
    IF bytes = <<>> THEN 0 ELSE Head(bytes) + 256 * BytesValue(Tail(bytes))

RECURSIVE Flatten(_)
Flatten(seqs) == IF seqs = <<>> THEN <<>> ELSE Head(seqs) \o Flatten(Tail(seqs))

\* device.createBuffer: a buffer mapped at creation must have a size that is
\* a multiple of 4, or the call throws a RangeError. The new buffer is
\* zero-filled and mapped.
DeviceCreateBuffer(heap, desc) ==
    IF desc.mappedAtCreation /\ desc.size % 4 # 0
    THEN [threw |-> TRUE, heap |-> heap, buffer |-> 0]
    ELSE [threw |-> FALSE,
          heap |-> Append(heap, [size |-> desc.size, usage |-> desc.usage,
                                 mapState |-> IF desc.mappedAtCreation THEN "mapped"
                                              ELSE "unmapped",
                                 bytes |-> [k \in 1..desc.size |-> 0]]),
          buffer |-> Len(heap) + 1]

\* new Float32Array(buffer.getMappedRange()).set(data), and the same for
\* Uint16Array: the elements are laid down from the start of the range.
WriteMapped(heap, b, data) ==
    LET n == BytesPerElement(data.arrayType)
        laid == Flatten([k \in 1..Len(data.elements) |-> ElementBytes(data.elements[k], n)])
    IN  [heap EXCEPT ![b].bytes =
            [k \in 1..Len(@) |-> IF k <= Len(laid) THEN laid[k] ELSE @[k]]]

\* The mapped range read as a typed array of the payload's type.
ReadMapped(heap, b, arrayType) ==
    LET n == BytesPerElement(arrayType)
        bytes == heap[b].bytes
    IN  [k \in 1..(Len(bytes) \div n) |-> BytesValue(SubSeq(bytes, (k - 1) * n + 1, k * n))]

\* A creation that leaves the buffer mapped.
UnmapSkipped(heap, b) == heap

\* buffer.unmap()
Unmap(heap, b) == [heap EXCEPT ![b].mapState = "unmapped"]

CreateGPUBuffer(heap, data, usage) ==
    LET bufferDesc == [size |-> ByteLength(data), usage |-> usage, mappedAtCreation |-> TRUE]
        created == DeviceCreateBuffer(heap, bufferDesc)
    IN  IF created.threw
        THEN [threw |-> TRUE, heap |-> heap, buffer |-> 0, mappedRead |-> <<>>]
        ELSE LET written == WriteMapped(created.heap, created.buffer, data)
             IN  [threw |-> FALSE,
                  heap |-> Unmap(written, created.buffer),
                  buffer |-> created.buffer,
                  mappedRead |-> ReadMapped(written, created.buffer, data.arrayType)]

NoBufferResult == [status |-> "none", buffer |-> 0, mappedRead |-> <<>>]

BufferCall ==
    /\ bufResult.status = "none"
    /\ LET r == CreateGPUBuffer(buffers, bufData, bufUsage)
       IN  /\ buffers' = r.heap
           /\ bufResult' = [status |-> IF r.threw THEN "thrown" ELSE "returned",
                            buffer |-> r.buffer, mappedRead |-> r.mappedRead]
    /\ UNCHANGED <<bufData, bufUsage>>
    /\ UNCHANGED notBufVars

BufferInit ==
    /\ buffers = <<>>
    /\ bufData \in Payloads
    /\ bufUsage \in BufferUsages
    /\ bufResult = NoBufferResult

BufferIdle ==
    /\ buffers = <<>>
    /\ bufData = [arrayType |-> "Float32Array", elements |-> <<>>]
    /\ bufUsage = {}
    /\ bufResult = NoBufferResult

(***************************************************************************)
(* The device's textures and the canvas                                    *)
(***************************************************************************)

\* The largest width, height and client size of the model.
MaxDim == 2

\* Lengths that need not be whole (a client size times a device pixel
\* ratio) are counted in units of 1/Scale, so that a ratio of 1.5 is 3.
Scale == 2

Dims == 1..MaxDim

\* The formats navigator.gpu.getPreferredCanvasFormat() may return.
CanvasFormats == {"bgra8unorm", "rgba8unorm"}

\* JavaScript's truthiness of an optional number: undefined and 0 are falsy.
Truthy(n) == n # Undefined /\ n # 0

\* device.createTexture: the descriptor's sampleCount defaults to 1.
DeviceCreateTexture(heap, desc) ==
    Append(heap, [width |-> desc.width, height |-> desc.height,
                  sampleCount |-> IF desc.sampleCount = Undefined THEN 1
                                  ELSE desc.sampleCount,
                  format |-> desc.format, usage |-> desc.usage,
                  destroyed |-> FALSE, content |-> "none"])

\* The texture context.getCurrentTexture() returns: of the canvas's size and
\* of the format the surface was configured with.
SurfaceTexture(cv, format) ==
    [width |-> cv.width, height |-> cv.height, sampleCount |-> 1,
     format |-> format, usage |-> {"RENDER_ATTACHMENT"}, destroyed |-> FALSE,
     content |-> "none"]

\* The descriptor _createTexture and _createTextureFromImage pass.
OffscreenDescriptor(w, h) ==
    [width |-> w, height |-> h, sampleCount |-> Undefined, format |-> "rgba8unorm",
     usage |-> {"TEXTURE_BINDING", "COPY_DST", "RENDER_ATTACHMENT"}]

\* _createTexture(width, height)
OffscreenTexture(w, h) ==
    [width |-> w, height |-> h, sampleCount |-> 1, format |-> "rgba8unorm",
     usage |-> {"TEXTURE_BINDING", "COPY_DST", "RENDER_ATTACHMENT"}, destroyed |-> FALSE,
     content |-> "none"]

\* texture.createView()
View(t) == [texture |-> t]

NoView == [texture |-> 0]

NoAttachment ==
    [view |-> NoView, depthClearValue |-> 0, depthLoadOp |-> "", depthStoreOp |-> "",
     stencilClearValue |-> 0, stencilLoadOp |-> "", stencilStoreOp |-> ""]

(***************************************************************************)
(* WebGPUContext._createRenderTarget                                       *)
(***************************************************************************)

\* What the depth attachment clears depth and stencil to.
DepthClearValue == 1
StencilClearValue == 0

\* `if (msaa)`
UseMsaa(msaa) == Truthy(msaa)

\* The descriptor, and the device's textures after the call.
CreateRenderTarget(heap, cv, format, colorAttachmentTexture, clearValue, msaa, depthTexture) ==
    LET textureView == View(colorAttachmentTexture)
        withMsaa == DeviceCreateTexture(heap,
                        [width |-> cv.width, height |-> cv.height, sampleCount |-> msaa,
                         format |-> format, usage |-> {"RENDER_ATTACHMENT"}])
        colorAttachment ==
            IF UseMsaa(msaa)
            THEN [view |-> View(Len(withMsaa)), resolveTarget |-> textureView,
                  clearValue |-> clearValue, loadOp |-> "clear", storeOp |-> "store"]
            ELSE [view |-> textureView, resolveTarget |-> NoView,
                  clearValue |-> clearValue, loadOp |-> "clear", storeOp |-> "store"]
        depthStencilAttachment ==
            IF depthTexture # 0
            THEN [view |-> View(depthTexture),
                  depthClearValue |-> DepthClearValue, depthLoadOp |-> "clear",
                  depthStoreOp |-> "store",
                  stencilClearValue |-> StencilClearValue, stencilLoadOp |-> "clear",
                  stencilStoreOp |-> "store"]
            ELSE NoAttachment
    IN  [heap |-> IF UseMsaa(msaa) THEN withMsaa ELSE heap,
         descriptor |-> [colorAttachments |-> <<colorAttachment>>,
                         depthStencilAttachment |-> depthStencilAttachment]]

\* The clear colour the renderers pass for the surface.
ClearRed == [r |-> 1, g |-> 0, b |-> 0, a |-> 1]

NoRenderTarget ==
    [returned |-> FALSE, created |-> 0,
     descriptor |-> [colorAttachments |-> <<>>, depthStencilAttachment |-> NoAttachment]]

RenderTargetCall ==
    /\ ~rtResult.returned
    /\ LET r == CreateRenderTarget(textures, canvas, preferredFormat,
                    rtArgs.colorAttachmentTexture, rtArgs.clearValue, rtArgs.msaa,
                    rtArgs.depthTexture)
       IN  /\ textures' = r.heap
           /\ rtResult' = [returned |-> TRUE, created |-> Len(r.heap) - Len(textures),
                           descriptor |-> r.descriptor]
    /\ UNCHANGED <<canvas, preferredFormat, window, rtArgs>>
    /\ UNCHANGED notRtVars

\* The sample counts a caller may pass: none, 0, 1 and 4.
SampleCounts == {Undefined, 0, 1, 4}

\* The caller holds a colour texture (the surface's current texture or an
\* offscreen one) and, for some calls, a depth texture.
RenderTargetInit ==
    /\ canvas \in [width : Dims, height : Dims, clientWidth : {1}, clientHeight : {1}]
    /\ preferredFormat \in CanvasFormats
    /\ window = [devicePixelRatio |-> Scale]
    /\ \E offscreen \in BOOLEAN, depth \in BOOLEAN, msaa \in SampleCounts :
        /\ textures =
              <<IF offscreen THEN OffscreenTexture(canvas.width, canvas.height)
                ELSE SurfaceTexture(canvas, preferredFormat)>>
              \o (IF depth
                  THEN <<[width |-> canvas.width, height |-> canvas.height,
                          sampleCount |-> IF msaa = Undefined THEN 1 ELSE msaa,
                          format |-> "depth24plus-stencil8",
                          usage |-> {"RENDER_ATTACHMENT"}, destroyed |-> FALSE,
                          content |-> "none"]>>
                  ELSE <<>>)
        /\ rtArgs = [colorAttachmentTexture |-> 1, clearValue |-> ClearRed, msaa |-> msaa,
                     depthTexture |-> IF depth THEN 2 ELSE 0]
    /\ rtResult = NoRenderTarget

DeviceIdle ==
    /\ textures = <<>>
    /\ canvas = [width |-> 1, height |-> 1, clientWidth |-> 1, clientHeight |-> 1]
    /\ preferredFormat = "bgra8unorm"
    /\ window = [devicePixelRatio |-> Scale]

RenderTargetIdle ==
    /\ rtArgs = [colorAttachmentTexture |-> 0, clearValue |-> ClearRed, msaa |-> Undefined,
                 depthTexture |-> 0]
    /\ rtResult = NoRenderTarget

(***************************************************************************)
(* What the scene renderers share                                          *)
(***************************************************************************)

\* The contexts create constructs from the options callers pass.
Contexts == {NewContext(o) : o \in OptionsSet}

NoContext == NewContext(NoOptions)

\* A Float32Array of n elements; the model does not follow matrix values.
Floats(n) == [arrayType |-> "Float32Array", elements |-> [k \in 1..n |-> 0]]

\* _createTexture(width, height): the heap with the new texture at its end.
CreateTexture(heap, w, h) == DeviceCreateTexture(heap, OffscreenDescriptor(w, h))

\* _createTextureFromImage(imageBitmap): the texture is created with the
\* bitmap's size and the bitmap is copied into it at once.
CreateTextureFromImage(heap, w, h) ==
    LET made == DeviceCreateTexture(heap, OffscreenDescriptor(w, h))
    IN  [made EXCEPT ![Len(made)].content = "image"]

\* context.getCurrentTexture(): the heap with the surface's texture at its end.
GetCurrentTexture(heap, cv, format) == Append(heap, SurfaceTexture(cv, format))

\* _createPipeline: depth-stencil and multisample state come from the context.
\* device.createRenderPipeline returns a new pipeline object on every call:
\* id tells the objects apart. heap is the pipelines created so far.
CreatePipeline(heap, c, shaderModule, vertexBuffers, bindGroupLayouts, colorFormat, blend) ==
    LET pipeline ==
            [id |-> Len(heap) + 1,
             layout |-> bindGroupLayouts,
             module |-> shaderModule,
             buffers |-> vertexBuffers,
             format |-> colorFormat,
             blend |-> blend,
             primitive |-> c.primitiveState,
             depthStencil |-> c.depthStencilState,
             multisample |-> IF Truthy(c.msaa) THEN c.msaa ELSE 1]
    IN  [heap |-> Append(heap, pipeline), pipeline |-> pipeline]

\* The descriptors the renderers build.
BufferInput(visibility, readonly, b) ==
    [type |-> "buffer", visibility |-> visibility, readonly |-> readonly, resource |-> b]
TextureInput(visibility, t) ==
    [type |-> "texture", visibility |-> visibility, readonly |-> FALSE, resource |-> t]
SamplerInput(visibility, sm) ==
    [type |-> "sampler", visibility |-> visibility, readonly |-> FALSE, resource |-> sm]

StageVertex == 1
StageFragment == 2

\* One recorded render pass: from beginRenderPass to end.
RenderPass(descriptor, viewport, pipeline, vertexBuffers, bindGroup, draw) ==
    [colorAttachments |-> descriptor.colorAttachments,
     depthStencilAttachment |-> descriptor.depthStencilAttachment,
     viewport |-> viewport, pipeline |-> pipeline, vertexBuffers |-> vertexBuffers,
     bindGroup |-> bindGroup, draw |-> draw]

\* A command buffer that holds the passes alone, the copies having gone to
\* another encoder.
CommandBufferPassOnly(copies, passes) == [copies |-> <<>>, passes |-> passes]

\* What commandEncoder.finish() returns: the buffer-to-buffer copies and the
\* render passes recorded, each in recording order.
CommandBuffer(copies, passes) == [copies |-> copies, passes |-> passes]

\* The textures a pass samples: those its bind group holds views of.
BoundTextures(pass) ==
    {pass.bindGroup.entries[k].resource :
        k \in {j \in 1..Len(pass.bindGroup.entries) : pass.bindGroup.entries[j].kind = "texture"}}

\* The textures a pass renders into: its colour attachments' views and
\* resolve targets.
AttachedTextures(pass) ==
    ({pass.colorAttachments[k].view.texture : k \in 1..Len(pass.colorAttachments)}
     \cup {pass.colorAttachments[k].resolveTarget.texture : k \in 1..Len(pass.colorAttachments)})
    \ {0}

SceneIdle ==
    /\ ctx = NoContext
    /\ queue = <<>>
    /\ scene = [name |-> "none", stage |-> "none"]
    /\ local = [none |-> TRUE]
    /\ pipelines = <<>>
    /\ captures = <<>>

(***************************************************************************)
(* render_gaussian_blur                                                    *)
(***************************************************************************)

\* kernelSize and sigma
KernelSize == 8
Sigma == 8

\* Numbers of the kernel: a weight is counted in units of 1/KernelUnit, an
\* exponential and 2 * pi * sigma * sigma in units of 1/ExpUnit, a square
\* root in units of 1/SqrtUnit (SqrtUnit * SqrtUnit = ExpUnit).
KernelUnit == 1000000
ExpUnit == 10000
SqrtUnit == 100

\* 2.0 * Math.PI, in units of 1/ExpUnit.
TwoPi == 62832

\* Math.sqrt of x / ExpUnit in units of 1/SqrtUnit: the greatest r with
\* r * r <= x, found by bisection between lo and hi.
RECURSIVE SqrtSearch(_, _, _)
SqrtSearch(x, lo, hi) ==
    IF lo >= hi
    THEN lo
    ELSE LET mid == (lo + hi + 1) \div 2
         IN  IF mid * mid <= x THEN SqrtSearch(x, mid, hi) ELSE SqrtSearch(x, lo, mid - 1)

Sqrt(x) == SqrtSearch(x, 0, ExpUnit)

\* The number of terms of the exponential series the model sums.
ExpTerms == 24

\* Math.exp(-p / q) in units of 1/ExpUnit, as the sum of the series
\* 1 - x + x^2/2! - ..., each term got from the one before.
RECURSIVE ExpSeries(_, _, _, _, _)
ExpSeries(p, q, n, term, sum) ==
    IF n > ExpTerms \/ term = 0
    THEN sum
    ELSE LET next == (term * p) \div (q * n)
         IN  ExpSeries(p, q, n + 1, next, IF n % 2 = 1 THEN sum - next ELSE sum + next)

Exp(p, q) == ExpSeries(p, q, 1, ExpUnit, ExpUnit)

\* A weight that forgets the distance from the centre.
GaussianValueFlat(y, sigma) ==
    (KernelUnit * SqrtUnit) \div Sqrt(TwoPi * sigma * sigma)

\* gaussian_value = 1.0 / Math.sqrt(2.0 * Math.PI * sigma * sigma)
\*                      * Math.exp(-y * y / (2.0 * sigma * sigma))
GaussianValue(y, sigma) ==
    LET inverse == (KernelUnit * SqrtUnit) \div Sqrt(TwoPi * sigma * sigma)
    IN  (inverse * Exp(y * y, 2 * sigma * sigma)) \div ExpUnit

\* The loop `for (y = -kernelSize; y <= kernelSize; y += 1.0)` adds one
\* weight per turn to intensity and pushes it onto kValues.
RECURSIVE KernelLoop(_, _, _, _, _)
KernelLoop(y, kernelSize, sigma, intensity, kValues) ==
    IF y <= kernelSize
    THEN LET gaussian_value == GaussianValue(y, sigma)
         IN  KernelLoop(y + 1, kernelSize, sigma, intensity + gaussian_value,
                        Append(kValues, gaussian_value))
    ELSE [kValues |-> kValues, intensity |-> intensity]

\* The 23 fraction bits of m / KernelUnit, KernelUnit <= m < 2 * KernelUnit,
\* by long division: r is the remainder, doubled bit after bit.
RECURSIVE FractionBits(_, _, _)
FractionBits(r, bits, acc) ==
    IF bits = 0
    THEN [fraction |-> acc, rest |-> r]
    ELSE IF 2 * r >= KernelUnit
         THEN FractionBits(2 * r - KernelUnit, bits - 1, 2 * acc + 1)
         ELSE FractionBits(2 * r, bits - 1, 2 * acc)

\* The single-precision bit pattern of a weight v / KernelUnit below 1:
\* v is doubled `shift` times to reach [1, 2), the exponent field is
\* 127 - shift, the fraction is rounded to nearest, ties to even.
RECURSIVE Float32Pattern(_, _)
Float32Pattern(v, shift) ==
    IF v = 0
    THEN 0
    ELSE IF v < KernelUnit
         THEN Float32Pattern(2 * v, shift + 1)
         ELSE LET d == FractionBits(v - KernelUnit, 23, 0)
                  up == \/ 2 * d.rest > KernelUnit
                        \/ 2 * d.rest = KernelUnit /\ d.fraction % 2 = 1
              IN  (127 - shift) * 8388608 + d.fraction + (IF up THEN 1 ELSE 0)

\* new Float32Array(kValues): every weight rounded to single precision.
Float32ArrayFrom(values) ==
    [arrayType |-> "Float32Array",
     elements |-> [k \in 1..Len(values) |-> Float32Pattern(values[k], 0)]]

\* The largest kernelSize and sigma the kernel machine is started with.
MaxKernelSize == 9
MaxSigma == 9

\* The loop runs from its first turn to its last.
KernelGenerate ==
    /\ scene.name = "kernel"
    /\ scene.stage = "start"
    /\ LET r == KernelLoop(-scene.kernelSize, scene.kernelSize, scene.sigma, 0, <<>>)
       IN  local' = [kValues |-> r.kValues, intensity |-> r.intensity, kernelBuffer |-> 0]
    /\ scene' = [scene EXCEPT !.stage = "generated"]
    /\ UNCHANGED <<ctx, queue, pipelines, captures, buffers, deviceVars>>
    /\ UNCHANGED notSceneVars

\* kernelBuffer = this._createGPUBuffer(new Float32Array(kValues), STORAGE)
KernelUpload ==
    /\ scene.name = "kernel"
    /\ scene.stage = "generated"
    /\ LET kernelBuffer == CreateGPUBuffer(buffers, Float32ArrayFrom(local.kValues), {"STORAGE"})
       IN  /\ buffers' = kernelBuffer.heap
           /\ local' = [local EXCEPT !.kernelBuffer = kernelBuffer.buffer]
    /\ scene' = [scene EXCEPT !.stage = "uploaded"]
    /\ UNCHANGED <<ctx, queue, pipelines, captures, deviceVars>>
    /\ UNCHANGED notSceneVars

KernelInit ==
    /\ ctx \in Contexts
    /\ canvas = [width |-> 1, height |-> 1, clientWidth |-> 1, clientHeight |-> 1]
    /\ preferredFormat = "bgra8unorm"
    /\ window = [devicePixelRatio |-> Scale]
    /\ textures = <<>>
    /\ buffers = <<>>
    /\ queue = <<>>
    /\ scene \in [name : {"kernel"}, stage : {"start"}, kernelSize : 0..MaxKernelSize,
                  sigma : (Sigma \div 2)..MaxSigma]
    /\ local = [none |-> TRUE]
    /\ pipelines = <<>>
    /\ captures = <<>>

\* The scene's arguments (scenes/gaussian_blur): 4 vertices, 1 instance.
GaussianVertexCount == 4
GaussianInstanceCount == 1

\* The texture pass two samples.
PassTwoSourceImage(texture, passOneTexture) == texture

PassTwoSource(texture, passOneTexture) == passOneTexture

\* An await of the loading prefix settles: fetch, blob, createImageBitmap.
GaussianLoad(ok) ==
    /\ scene.name = "gaussian"
    /\ scene.stage \in {"fetch", "blob"}
    /\ scene' = [scene EXCEPT !.stage =
                    IF ~ok THEN "rejected" ELSE IF @ = "fetch" THEN "blob" ELSE "decode"]
    /\ UNCHANGED <<ctx, queue, local, pipelines, captures, buffers, deviceVars>>
    /\ UNCHANGED notSceneVars

\* createImageBitmap settles; on success the rest of the function runs to
\* its end: resources, two passes in one encoder, one submit.
GaussianRender(ok) ==
    /\ scene.name = "gaussian"
    /\ scene.stage = "decode"
    /\ IF ~ok
       THEN /\ scene' = [scene EXCEPT !.stage = "rejected"]
            /\ UNCHANGED <<queue, local, pipelines, buffers, textures>>
       ELSE LET transformationMatrixBuffer == CreateGPUBuffer(buffers, Floats(16), {"UNIFORM"})
                projectionMatrixBuffer ==
                    CreateGPUBuffer(transformationMatrixBuffer.heap, Floats(16), {"UNIFORM"})
                t1 == CreateTextureFromImage(textures, scene.image.width, scene.image.height)
                texture == Len(t1)
                sampler == 1
                t2 == CreateTexture(t1, t1[texture].width, t1[texture].height)
                passOneTexture == Len(t2)
                imgSizeBuffer ==
                    CreateGPUBuffer(projectionMatrixBuffer.heap, Floats(2), {"UNIFORM"})
                kValues == KernelLoop(-KernelSize, KernelSize, Sigma, 0, <<>>).kValues
                kernelBuffer ==
                    CreateGPUBuffer(imgSizeBuffer.heap, Float32ArrayFrom(kValues), {"STORAGE"})
                kernelSizeBuffer == CreateGPUBuffer(kernelBuffer.heap, Floats(1), {"UNIFORM"})
                transformationMatrixInput ==
                    BufferInput(StageVertex, FALSE, transformationMatrixBuffer.buffer)
                projectionMatrixInput ==
                    BufferInput(StageVertex, FALSE, projectionMatrixBuffer.buffer)
                imageSizeInput == BufferInput(StageFragment, FALSE, imgSizeBuffer.buffer)
                textureInput == TextureInput(StageFragment, texture)
                samplerInput == SamplerInput(StageFragment, sampler)
                kernelInput == BufferInput(StageFragment, TRUE, kernelBuffer.buffer)
                kernelSizeInput == BufferInput(StageFragment, FALSE, kernelSizeBuffer.buffer)
                passOneTextureInput ==
                    TextureInput(StageFragment, PassTwoSource(texture, passOneTexture))
                groupOne == CreateUniformBindGroup(
                    <<imageSizeInput, textureInput, samplerInput, kernelInput, kernelSizeInput>>)
                groupTwo == CreateUniformBindGroup(
                    <<transformationMatrixInput, projectionMatrixInput, imageSizeInput,
                      passOneTextureInput, samplerInput, kernelInput, kernelSizeInput>>)
                positionBuffer == CreateGPUBuffer(kernelSizeBuffer.heap, Floats(12), {"VERTEX"})
                texCoordBufferOne == CreateGPUBuffer(positionBuffer.heap, Floats(8), {"VERTEX"})
                texCoordBufferTwo == CreateGPUBuffer(texCoordBufferOne.heap, Floats(8), {"VERTEX"})
                targetOne == CreateRenderTarget(t2, canvas, preferredFormat, passOneTexture,
                                 [r |-> 0, g |-> 0, b |-> 0, a |-> 0], Undefined, 0)
                pipelineOne == CreatePipeline(pipelines, ctx, "shaderCodeOne", <<"float32x2">>,
                                   <<groupOne.bindGroupLayout>>, "rgba8unorm", FALSE)
                passOne == RenderPass(targetOne.descriptor,
                               [width |-> t1[texture].width, height |-> t1[texture].height],
                               pipelineOne.pipeline,
                               <<texCoordBufferOne.buffer>>, groupOne.bindGroup,
                               [vertexCount |-> GaussianVertexCount,
                                instanceCount |-> GaussianInstanceCount])
                t3 == GetCurrentTexture(targetOne.heap, canvas, preferredFormat)
                targetTwo == CreateRenderTarget(t3, canvas, preferredFormat, Len(t3),
                                 ClearRed, Undefined, 0)
                pipelineTwo == CreatePipeline(pipelineOne.heap, ctx, "shaderCodeTwo",
                                   <<"float32x3", "float32x2">>,
                                   <<groupTwo.bindGroupLayout>>, "bgra8unorm", FALSE)
                passTwo == RenderPass(targetTwo.descriptor,
                               [width |-> canvas.width, height |-> canvas.height],
                               pipelineTwo.pipeline,
                               <<positionBuffer.buffer, texCoordBufferTwo.buffer>>,
                               groupTwo.bindGroup,
                               [vertexCount |-> GaussianVertexCount,
                                instanceCount |-> GaussianInstanceCount])
            IN  /\ buffers' = texCoordBufferTwo.heap
                /\ textures' = targetTwo.heap
                /\ pipelines' = pipelineTwo.heap
                /\ queue' = Append(queue, CommandBuffer(<<>>, <<passOne, passTwo>>))
                /\ local' = [texture |-> texture, passOneTexture |-> passOneTexture,
                             surfaceTexture |-> Len(t3)]
                /\ scene' = [scene EXCEPT !.stage = "done"]
    /\ UNCHANGED <<ctx, captures, canvas, preferredFormat, window>>
    /\ UNCHANGED notSceneVars

GaussianInit ==
    /\ ctx \in Contexts
    /\ canvas \in [width : Dims, height : Dims, clientWidth : {1}, clientHeight : {1}]
    /\ preferredFormat \in CanvasFormats
    /\ window = [devicePixelRatio |-> Scale]
    /\ textures = <<>>
    /\ buffers = <<>>
    /\ queue = <<>>
    /\ scene \in [name : {"gaussian"}, stage : {"fetch"}, image : [width : Dims, height : Dims]]
    /\ local = [none |-> TRUE]
    /\ pipelines = <<>>
    /\ captures = <<>>

(***************************************************************************)
(* _createDepthTexture                                                     *)
(***************************************************************************)

\* The depth texture has the canvas's size and the context's sample count.
CreateDepthTexture(heap, cv, msaa) ==
    DeviceCreateTexture(heap,
        [width |-> cv.width, height |-> cv.height, sampleCount |-> msaa,
         format |-> "depth24plus-stencil8", usage |-> {"RENDER_ATTACHMENT"}])

(***************************************************************************)
(* render_watercolor                                                       *)
(*                                                                         *)
(* The scene function calls it with five shaders, a mesh and two images.   *)
(* Its body is not part of the sources at hand: the order of the passes    *)
(* and the targets of each are those of the specification; what each pass  *)
(* reads and writes is what its shader declares.                           *)
(***************************************************************************)

MaxFrames == 2

\* The five passes, by shader, in the order they are recorded.
WatercolorOrder == <<"scene", "mrtBlurV", "mrtBlurH", "surface", "stylize">>

\* The bindings of group 0 each shader declares, in binding order; a texture
\* or buffer is named by the slot of the frame it is taken from.
ShaderBindings(shader) ==
    CASE shader = "scene" ->
            <<[type |-> "buffer", slot |-> "uniforms"],
              [type |-> "texture", slot |-> "marble"],
              [type |-> "sampler", slot |-> "sampler"]>>
      [] shader = "mrtBlurV" ->
            <<[type |-> "texture", slot |-> "color"],
              [type |-> "texture", slot |-> "control"],
              [type |-> "texture", slot |-> "depth"]>>
      [] shader = "mrtBlurH" ->
            <<[type |-> "texture", slot |-> "color"],
              [type |-> "texture", slot |-> "control"],
              [type |-> "texture", slot |-> "blurred"],
              [type |-> "texture", slot |-> "bleeded"],
              [type |-> "texture", slot |-> "surface"]>>
      [] shader = "surface" ->
            <<[type |-> "texture", slot |-> "paper"],
              [type |-> "sampler", slot |-> "sampler"]>>
      [] shader = "stylize" ->
            <<[type |-> "texture", slot |-> "composed"]>>

\* The fragment outputs each shader declares, in location order, by slot.
ShaderOutputs(shader) ==
    CASE shader = "scene" -> <<"color", "control">>
      [] shader = "mrtBlurV" -> <<"blurred", "bleeded", "controlV">>
      [] shader = "mrtBlurH" -> <<"composed">>
      [] shader = "surface" -> <<"surface">>
      [] shader = "stylize" -> <<"screen">>

\* The offscreen targets of a frame, one texture each.
OffscreenSlots == <<"color", "control", "blurred", "bleeded", "controlV", "composed", "surface">>

\* The render target of several colour attachments: each texture is bound
\* directly, as _createRenderTarget binds one without a sample count.
CreateRenderTargets(colorAttachmentTextures, clearValue, depthTexture) ==
    [colorAttachments |->
        [k \in 1..Len(colorAttachmentTextures) |->
            [view |-> View(colorAttachmentTextures[k]), resolveTarget |-> NoView,
             clearValue |-> clearValue, loadOp |-> "clear", storeOp |-> "store"]],
     depthStencilAttachment |->
        IF depthTexture # 0
        THEN [view |-> View(depthTexture),
              depthClearValue |-> DepthClearValue, depthLoadOp |-> "clear",
              depthStoreOp |-> "store",
              stencilClearValue |-> StencilClearValue, stencilLoadOp |-> "clear",
              stencilStoreOp |-> "store"]
        ELSE NoAttachment]

\* The bind group layout a shader's bindings make; it does not depend on the
\* resources bound.
ShaderLayout(shader) ==
    LET bindings == ShaderBindings(shader)
    IN  CreateUniformBindGroup(
            [k \in 1..Len(bindings) |->
                [type |-> bindings[k].type, visibility |-> StageFragment,
                 readonly |-> FALSE, resource |-> 0]]).bindGroupLayout

\* The pipelines of the passes from the k-th on, built once at setup: the
\* animated paths build their pipelines once and reuse them.
RECURSIVE CreateWatercolorPipelines(_, _, _)
CreateWatercolorPipelines(heap, c, k) ==
    IF k <= Len(WatercolorOrder)
    THEN CreateWatercolorPipelines(
             CreatePipeline(heap, c, WatercolorOrder[k], <<>>,
                 <<ShaderLayout(WatercolorOrder[k])>>,
                 IF WatercolorOrder[k] = "stylize" THEN "bgra8unorm" ELSE "rgba8unorm",
                 FALSE).heap,
             c, k + 1)
    ELSE heap

\* The pass of one shader, over the textures and buffers in slots.
WatercolorPass(pipeline, cv, shader, slots) ==
    LET bindings == ShaderBindings(shader)
        inputs == [k \in 1..Len(bindings) |->
                      [type |-> bindings[k].type, visibility |-> StageFragment,
                       readonly |-> FALSE, resource |-> slots[bindings[k].slot]]]
        group == CreateUniformBindGroup(inputs)
        outputs == ShaderOutputs(shader)
        target == CreateRenderTargets([k \in 1..Len(outputs) |-> slots[outputs[k]]],
                      [r |-> 0, g |-> 0, b |-> 0, a |-> 0],
                      IF shader = "scene" THEN slots["depth"] ELSE 0)
    IN  RenderPass(target, [width |-> cv.width, height |-> cv.height], pipeline,
            <<>>, group.bindGroup, [vertexCount |-> 3, instanceCount |-> 1])

\* The heap after one offscreen texture per slot has been created.
RECURSIVE CreateOffscreen(_, _, _, _)
CreateOffscreen(heap, cv, names, k) ==
    IF k <= Len(names)
    THEN CreateOffscreen(CreateTexture(heap, cv.width, cv.height), cv, names, k + 1)
    ELSE heap

\* The mesh, the paper image, the marble image: each load may fail.
WatercolorLoad(ok) ==
    /\ scene.name = "watercolor"
    /\ scene.stage \in {"mesh", "paper"}
    /\ scene' = [scene EXCEPT !.stage =
                    IF ~ok THEN "rejected" ELSE IF @ = "mesh" THEN "paper" ELSE "marble"]
    /\ UNCHANGED <<ctx, queue, local, pipelines, captures, buffers, deviceVars>>
    /\ UNCHANGED notSceneVars

\* The persistent resources of the renderer: the uniform buffer, the paper
\* and marble textures, the five pipelines.
WatercolorResources(c, texs, bufs, pipes, image) ==
    LET uniforms == CreateGPUBuffer(bufs, Floats(16), {"UNIFORM", "COPY_DST"})
        t1 == CreateTextureFromImage(texs, image.width, image.height)
        t2 == CreateTextureFromImage(t1, image.width, image.height)
        built == CreateWatercolorPipelines(pipes, c, 1)
    IN  [buffers |-> uniforms.heap,
         textures |-> t2,
         pipelines |-> built,
         local |-> [uniforms |-> uniforms.buffer, paper |-> Len(t1),
                    marble |-> Len(t2), sampler |-> 1,
                    pipelines |-> [k \in 1..Len(WatercolorOrder) |-> built[Len(pipes) + k]]]]

\* The last load settles; on success the persistent resources are created
\* and the first frame is requested.
WatercolorSetup(ok) ==
    /\ scene.name = "watercolor"
    /\ scene.stage = "marble"
    /\ IF ~ok
       THEN /\ scene' = [scene EXCEPT !.stage = "rejected"]
            /\ UNCHANGED <<local, pipelines, buffers, textures>>
       ELSE LET made == WatercolorResources(ctx, textures, buffers, pipelines, scene.image)
            IN  /\ buffers' = made.buffers
                /\ textures' = made.textures
                /\ pipelines' = made.pipelines
                /\ local' = made.local
                /\ scene' = [scene EXCEPT !.stage = "running"]
    /\ UNCHANGED <<ctx, queue, captures, canvas, preferredFormat, window>>
    /\ UNCHANGED notSceneVars

\* One run of the frame function, with l the renderer's persistent
\* resources: the targets are created, the five passes are recorded in order
\* into one encoder.
WatercolorRender(l, cv, format, texs) ==
    LET base == Len(texs)
        t1 == CreateOffscreen(texs, cv, OffscreenSlots, 1)
        t2 == CreateDepthTexture(t1, cv, Undefined)
        t3 == GetCurrentTexture(t2, cv, format)
        slots == [n \in {"uniforms", "paper", "marble", "sampler", "depth", "screen"}
                         \cup {OffscreenSlots[k] : k \in 1..Len(OffscreenSlots)} |->
                     CASE n \in {"uniforms", "paper", "marble", "sampler"} -> l[n]
                       [] n = "depth" -> Len(t2)
                       [] n = "screen" -> Len(t3)
                       [] OTHER ->
                           base + CHOOSE k \in 1..Len(OffscreenSlots) : OffscreenSlots[k] = n]
    IN  [textures |-> t3,
         commandBuffer |-> CommandBuffer(<<>>,
             [k \in 1..Len(WatercolorOrder) |->
                 WatercolorPass(l.pipelines[k], cv, WatercolorOrder[k], slots)])]

\* One frame: the frame function runs and the encoder is submitted.
WatercolorFrame ==
    /\ scene.name = "watercolor"
    /\ scene.stage = "running"
    /\ scene.frame < MaxFrames
    /\ LET frame == WatercolorRender(local, canvas, preferredFormat, textures)
       IN  /\ textures' = frame.textures
           /\ queue' = Append(queue, frame.commandBuffer)
    /\ scene' = [scene EXCEPT !.frame = @ + 1]
    /\ UNCHANGED <<ctx, local, pipelines, captures, buffers, canvas, preferredFormat, window>>
    /\ UNCHANGED notSceneVars

WatercolorInit ==
    /\ ctx \in Contexts
    /\ canvas \in [width : Dims, height : Dims, clientWidth : {1}, clientHeight : {1}]
    /\ preferredFormat \in CanvasFormats
    /\ window = [devicePixelRatio |-> Scale]
    /\ textures = <<>>
    /\ buffers = <<>>
    /\ queue = <<>>
    /\ scene \in [name : {"watercolor"}, stage : {"mesh"}, frame : {0},
                  image : [width : Dims, height : Dims]]
    /\ local = [none |-> TRUE]
    /\ pipelines = <<>>
    /\ captures = <<>>

(***************************************************************************)
(* render_obj_model                                                        *)
(***************************************************************************)

MaxTriangles == 2

\* The device pixel ratios of the model, in units of 1/Scale: 1, 1 + 1/Scale
\* and 2.
DevicePixelRatios == {Scale, Scale + 1, 2 * Scale}

\* `window.devicePixelRatio || 1`, in units of 1/Scale
DevicePixelRatioOrOne(w) == IF w.devicePixelRatio = 0 THEN Scale ELSE w.devicePixelRatio

\* Assigning canvas.width or canvas.height converts the number to an
\* unsigned long: the fraction is dropped. The argument is in units of
\* 1/Scale, the result in whole pixels.
ToUnsignedLong(x) == x \div Scale

\* A Uint16Array of n elements.
Uint16s(n) == [arrayType |-> "Uint16Array", elements |-> [k \in 1..n |-> 0]]

\* commandEncoder.copyBufferToBuffer(source, 0, destination, 0, size)
Copy(source, destination, size) == [source |-> source, destination |-> destination, size |-> size]

\* What the promise of the scene function is once it has called the
\* renderer, whose promise is rendererPromise: the scene function neither
\* awaits nor returns the renderer's promise, so its own is fulfilled when
\* it returns.
RenderSceneResult(rendererPromise) == "fulfilled"

\* An await of the loading prefix settles: fetch, blob.
ObjModelLoad(ok) ==
    /\ scene.name = "objModel"
    /\ scene.stage \in {"fetch", "blob"}
    /\ scene' = IF ~ok
                THEN [scene EXCEPT !.stage = "rejected", !.promise = "rejected"]
                ELSE [scene EXCEPT !.stage = IF @ = "fetch" THEN "blob" ELSE "text"]
    /\ UNCHANGED <<ctx, queue, local, pipelines, captures, buffers, deviceVars>>
    /\ UNCHANGED notSceneVars

\* The setup of render_obj_model once the mesh text is there: the mesh is
\* parsed and the persistent resources are created. The index buffer is made
\* from a Uint16Array of three indices per triangle. threw tells whether a
\* _createGPUBuffer call threw.
ObjModelResources(c, cv, texs, bufs, triangles) ==
    LET depthTextures == CreateDepthTexture(texs, cv, c.msaa)
        usage == {"UNIFORM", "COPY_DST"}
        transformationMatrixBuffer == CreateGPUBuffer(bufs, Floats(16), usage)
        projectionMatrixBuffer ==
            CreateGPUBuffer(transformationMatrixBuffer.heap, Floats(16), usage)
        normalMatrixBuffer ==
            CreateGPUBuffer(projectionMatrixBuffer.heap, Floats(16), usage)
        lightDirectionBuffer == CreateGPUBuffer(normalMatrixBuffer.heap, Floats(3), usage)
        viewDirectionBuffer == CreateGPUBuffer(lightDirectionBuffer.heap, Floats(3), usage)
        group == CreateUniformBindGroup(
            <<BufferInput(StageVertex, FALSE, transformationMatrixBuffer.buffer),
              BufferInput(StageVertex, FALSE, projectionMatrixBuffer.buffer),
              BufferInput(StageVertex, FALSE, normalMatrixBuffer.buffer),
              BufferInput(StageVertex, FALSE, lightDirectionBuffer.buffer),
              BufferInput(StageVertex, FALSE, viewDirectionBuffer.buffer)>>)
        positionBuffer ==
            CreateGPUBuffer(viewDirectionBuffer.heap, Floats(9 * triangles), {"VERTEX"})
        normalBuffer ==
            CreateGPUBuffer(positionBuffer.heap, Floats(9 * triangles), {"VERTEX"})
        indexBuffer ==
            CreateGPUBuffer(normalBuffer.heap, Uint16s(3 * triangles), {"INDEX"})
    IN  [textures |-> depthTextures,
         buffers |-> indexBuffer.heap,
         threw |-> indexBuffer.threw,
         local |-> [depthTexture |-> Len(depthTextures),
                    oldDepthTexture |-> 0,
                    transformationMatrixBuffer |-> transformationMatrixBuffer.buffer,
                    projectionMatrixBuffer |-> projectionMatrixBuffer.buffer,
                    normalMatrixBuffer |-> normalMatrixBuffer.buffer,
                    lightDirectionBuffer |-> lightDirectionBuffer.buffer,
                    viewDirectionBuffer |-> viewDirectionBuffer.buffer,
                    bindGroup |-> group,
                    positionBuffer |-> positionBuffer.buffer,
                    normalBuffer |-> normalBuffer.buffer,
                    indexBuffer |-> indexBuffer.buffer,
                    triangles |-> triangles,
                    currentCanvasWidth |-> 0, currentCanvasHeight |-> 0,
                    resized |-> FALSE, ops |-> <<>>]]

\* blob.text() settles; on success the setup runs and the first frame is
\* requested.
ObjModelSetup(ok) ==
    /\ scene.name = "objModel"
    /\ scene.stage = "text"
    /\ IF ~ok
       THEN /\ scene' = [scene EXCEPT !.stage = "rejected", !.promise = "rejected"]
            /\ UNCHANGED <<local, buffers, textures>>
       ELSE LET made == ObjModelResources(ctx, canvas, textures, buffers, scene.triangles)
            IN  /\ textures' = made.textures
                /\ buffers' = made.buffers
                /\ local' = made.local
                /\ scene' = IF made.threw
                            THEN [scene EXCEPT !.stage = "thrown", !.promise = "rejected"]
                            ELSE [scene EXCEPT !.stage = "running", !.promise = "fulfilled",
                                               !.pending = 1]
    /\ UNCHANGED <<ctx, queue, pipelines, captures, canvas, preferredFormat, window>>
    /\ UNCHANGED notSceneVars

\* The layout changes the canvas's client size, or the window moves to a
\* screen of another device pixel ratio.
Resize(clientWidth, clientHeight, devicePixelRatio) ==
    /\ scene.name = "objModel"
    /\ scene.stage = "running"
    /\ scene.frame < MaxFrames
    /\ canvas' = [canvas EXCEPT !.clientWidth = clientWidth, !.clientHeight = clientHeight]
    /\ window' = [window EXCEPT !.devicePixelRatio = devicePixelRatio]
    /\ <<canvas', window'>> # <<canvas, window>>
    /\ UNCHANGED <<ctx, queue, scene, local, pipelines, captures, buffers, textures, preferredFormat>>
    /\ UNCHANGED notSceneVars

\* The ops of a frame's tail: the pass, the submit, the next frame.
FrameTailRequestFirst == <<"requestAnimationFrame", "beginRenderPass", "endRenderPass", "submit">>

FrameTail == <<"beginRenderPass", "endRenderPass", "submit", "requestAnimationFrame">>

\* A frame that takes every observation for a size change.
SizeDiffersAlways(cv, currentCanvasWidth, currentCanvasHeight) == TRUE

\* `currentCanvasWidth != this._canvas.width || currentCanvasHeight !=
\* this._canvas.height`, the observed sizes in units of 1/Scale.
SizeDiffers(cv, currentCanvasWidth, currentCanvasHeight) ==
    \/ currentCanvasWidth # cv.width * Scale
    \/ currentCanvasHeight # cv.height * Scale

\* One run of the render closure of render_obj_model, with l the closure's
\* captured variables: what it leaves behind.
ObjModelRender(l, c, cv, w, format, texs, bufs, pipes) ==
    LET devicePixelRatio == DevicePixelRatioOrOne(w)
        currentCanvasWidth == cv.clientWidth * devicePixelRatio
        currentCanvasHeight == cv.clientHeight * devicePixelRatio
        resized == SizeDiffers(cv, currentCanvasWidth, currentCanvasHeight)
        cv2 == IF resized
               THEN [cv EXCEPT !.width = ToUnsignedLong(currentCanvasWidth),
                               !.height = ToUnsignedLong(currentCanvasHeight)]
               ELSE cv
        t1 == IF resized
              THEN CreateDepthTexture(
                       [texs EXCEPT ![l.depthTexture].destroyed = TRUE], cv2, c.msaa)
              ELSE texs
        depthTexture == IF resized THEN Len(t1) ELSE l.depthTexture
        projectionMatrixUpdateBuffer == CreateGPUBuffer(bufs, Floats(16), {"COPY_SRC"})
        b1 == IF resized THEN projectionMatrixUpdateBuffer.heap ELSE bufs
        modelViewMatrixUpdateBuffer == CreateGPUBuffer(b1, Floats(16), {"COPY_SRC"})
        normalMatrixUpdateBuffer ==
            CreateGPUBuffer(modelViewMatrixUpdateBuffer.heap, Floats(16), {"COPY_SRC"})
        viewDirectionUpdateBuffer ==
            CreateGPUBuffer(normalMatrixUpdateBuffer.heap, Floats(3), {"COPY_SRC"})
        copies ==
            (IF resized
             THEN <<Copy(projectionMatrixUpdateBuffer.buffer, l.projectionMatrixBuffer,
                         16 * BytesPerElement("Float32Array"))>>
             ELSE <<>>)
            \o <<Copy(modelViewMatrixUpdateBuffer.buffer, l.transformationMatrixBuffer,
                      16 * BytesPerElement("Float32Array")),
                 Copy(normalMatrixUpdateBuffer.buffer, l.normalMatrixBuffer,
                      16 * BytesPerElement("Float32Array")),
                 Copy(viewDirectionUpdateBuffer.buffer, l.viewDirectionBuffer,
                      3 * BytesPerElement("Float32Array")),
                 Copy(viewDirectionUpdateBuffer.buffer, l.lightDirectionBuffer,
                      3 * BytesPerElement("Float32Array"))>>
        t2 == GetCurrentTexture(t1, cv2, format)
        target == CreateRenderTarget(t2, cv2, format, Len(t2), ClearRed, c.msaa, depthTexture)
        pipeline == CreatePipeline(pipes, c, "shaderCode", <<"float32x3", "float32x3">>,
                        <<l.bindGroup.bindGroupLayout>>, "bgra8unorm", FALSE)
        pass == RenderPass(target.descriptor,
                    [width |-> cv2.width, height |-> cv2.height],
                    pipeline.pipeline,
                    <<l.positionBuffer, l.normalBuffer>>,
                    l.bindGroup.bindGroup,
                    [indexBuffer |-> l.indexBuffer,
                     indexCount |-> 3 * l.triangles, instanceCount |-> 1])
        ops == (IF resized
                THEN <<"setCanvasSize", "configure", "destroyDepthTexture",
                       "createDepthTexture", "createProjectionUpdateBuffer">>
                ELSE <<>>)
               \o <<"createUpdateBuffers", "createCommandEncoder">>
               \o [n \in 1..Len(copies) |-> "copyBufferToBuffer"]
               \o FrameTail
    IN  [canvas |-> cv2,
         textures |-> target.heap,
         buffers |-> viewDirectionUpdateBuffer.heap,
         pipelines |-> pipeline.heap,
         commandBuffer |-> CommandBuffer(copies, <<pass>>),
         local |-> [l EXCEPT !.depthTexture = depthTexture,
                             !.oldDepthTexture = l.depthTexture,
                             !.currentCanvasWidth = currentCanvasWidth,
                             !.currentCanvasHeight = currentCanvasHeight,
                             !.resized = resized,
                             !.ops = ops]]

\* The animation scheduler runs the render closure: one callback is taken
\* and the closure requests one.
ObjModelFrame ==
    /\ scene.name = "objModel"
    /\ scene.stage = "running"
    /\ scene.frame < MaxFrames
    /\ scene.pending > 0
    /\ LET frame == ObjModelRender(local, ctx, canvas, window, preferredFormat,
                        textures, buffers, pipelines)
       IN  /\ canvas' = frame.canvas
           /\ textures' = frame.textures
           /\ buffers' = frame.buffers
           /\ pipelines' = frame.pipelines
           /\ queue' = Append(queue, frame.commandBuffer)
           /\ local' = frame.local
    /\ scene' = [scene EXCEPT !.frame = @ + 1, !.pending = @ - 1 + 1]
    /\ UNCHANGED <<ctx, captures, preferredFormat, window>>
    /\ UNCHANGED notSceneVars

\* The pointer controller, handed the render closure (`new Controls(canvas,
\* arcBall, render)`), runs it in response to input: the closure draws and
\* requests a frame as in any run, but no requested callback is taken.
ControlsInput ==
    /\ scene.name = "objModel"
    /\ scene.stage = "running"
    /\ scene.frame < MaxFrames
    /\ LET frame == ObjModelRender(local, ctx, canvas, window, preferredFormat,
                        textures, buffers, pipelines)
       IN  /\ canvas' = frame.canvas
           /\ textures' = frame.textures
           /\ buffers' = frame.buffers
           /\ pipelines' = frame.pipelines
           /\ queue' = Append(queue, frame.commandBuffer)
           /\ local' = frame.local
    /\ scene' = [scene EXCEPT !.frame = @ + 1, !.pending = @ + 1]
    /\ UNCHANGED <<ctx, captures, preferredFormat, window>>
    /\ UNCHANGED notSceneVars

ObjModelInit ==
    /\ ctx \in Contexts
    /\ canvas \in [width : Dims, height : Dims, clientWidth : Dims, clientHeight : {1}]
    /\ preferredFormat = "bgra8unorm"
    /\ window \in [devicePixelRatio : DevicePixelRatios]
    /\ textures = <<>>
    /\ buffers = <<>>
    /\ queue = <<>>
    /\ scene \in [name : {"objModel"}, stage : {"fetch"}, frame : {0}, pending : {0},
                  sets : {0}, promise : {"pending"}, caller : {RenderSceneResult("pending")},
                  triangles : 1..MaxTriangles]
    /\ local = [none |-> TRUE]
    /\ pipelines = <<>>
    /\ captures = <<>>

(***************************************************************************)
(* The screenshot flag                                                     *)
(***************************************************************************)

MaxClicks == 2

\* `this._takeScreenshot = false`
ClearFlagSkipped(c) == c

ClearFlag(c) == [c EXCEPT !.takeScreenshot = FALSE]

\* The UI's screenshot button: `webGPUContextRef.current!.takeScreenshot =
\* true`, while an animated renderer runs. scene.sets counts the settings
\* that changed the flag.
TakeScreenshot ==
    /\ scene.name \in {"objModel", "rotating"}
    /\ scene.stage \in {"running", "awaitWorkDone"}
    /\ scene.sets < MaxClicks
    /\ ctx' = [ctx EXCEPT !.takeScreenshot = TRUE]
    /\ scene' = [scene EXCEPT !.sets = IF ctx.takeScreenshot THEN @ ELSE @ + 1]
    /\ ctx' # ctx
    /\ UNCHANGED <<queue, local, pipelines, captures, buffers, deviceVars>>
    /\ UNCHANGED notSceneVars

(***************************************************************************)
(* render_video_image_render_obj: the rotating mesh with screenshots       *)
(***************************************************************************)

\* An await of the loading prefix settles: fetch, blob.
RotatingLoad(ok) ==
    /\ scene.name = "rotating"
    /\ scene.stage \in {"fetch", "blob"}
    /\ scene' = IF ~ok
                THEN [scene EXCEPT !.stage = "rejected", !.promise = "rejected"]
                ELSE [scene EXCEPT !.stage = IF @ = "fetch" THEN "blob" ELSE "text"]
    /\ UNCHANGED <<ctx, queue, local, pipelines, captures, buffers, deviceVars>>
    /\ UNCHANGED notSceneVars

\* The setup once the mesh text is there.
RotatingResources(c, cv, texs, bufs, triangles) ==
    LET depthTextures == CreateDepthTexture(texs, cv, c.msaa)
        usage == {"UNIFORM", "COPY_DST"}
        transformationMatrixBuffer == CreateGPUBuffer(bufs, Floats(16), usage)
        projectionMatrixBuffer ==
            CreateGPUBuffer(transformationMatrixBuffer.heap, Floats(16), usage)
        normalMatrixBuffer ==
            CreateGPUBuffer(projectionMatrixBuffer.heap, Floats(16), usage)
        group == CreateUniformBindGroup(
            <<BufferInput(StageVertex, FALSE, transformationMatrixBuffer.buffer),
              BufferInput(StageVertex, FALSE, projectionMatrixBuffer.buffer),
              BufferInput(StageVertex, FALSE, normalMatrixBuffer.buffer)>>)
        positionBuffer ==
            CreateGPUBuffer(normalMatrixBuffer.heap, Floats(9 * triangles), {"VERTEX"})
        normalBuffer ==
            CreateGPUBuffer(positionBuffer.heap, Floats(9 * triangles), {"VERTEX"})
        indexBuffer ==
            CreateGPUBuffer(normalBuffer.heap, Uint16s(3 * triangles), {"INDEX"})
    IN  [textures |-> depthTextures,
         buffers |-> indexBuffer.heap,
         threw |-> indexBuffer.threw,
         local |-> [depthTexture |-> Len(depthTextures),
                    transformationMatrixBuffer |-> transformationMatrixBuffer.buffer,
                    projectionMatrixBuffer |-> projectionMatrixBuffer.buffer,
                    normalMatrixBuffer |-> normalMatrixBuffer.buffer,
                    bindGroup |-> group,
                    positionBuffer |-> positionBuffer.buffer,
                    normalBuffer |-> normalBuffer.buffer,
                    indexBuffer |-> indexBuffer.buffer,
                    triangles |-> triangles,
                    angle |-> 0,
                    ops |-> <<>>]]

\* blob.text() settles; on success the setup runs and the first frame is
\* requested.
RotatingSetup(ok) ==
    /\ scene.name = "rotating"
    /\ scene.stage = "text"
    /\ IF ~ok
       THEN /\ scene' = [scene EXCEPT !.stage = "rejected", !.promise = "rejected"]
            /\ UNCHANGED <<local, buffers, textures>>
       ELSE LET made == RotatingResources(ctx, canvas, textures, buffers, scene.triangles)
            IN  /\ textures' = made.textures
                /\ buffers' = made.buffers
                /\ local' = made.local
                /\ scene' = IF made.threw
                            THEN [scene EXCEPT !.stage = "thrown", !.promise = "rejected"]
                            ELSE [scene EXCEPT !.stage = "running", !.promise = "fulfilled",
                                               !.pending = 1]
    /\ UNCHANGED <<ctx, queue, pipelines, captures, canvas, preferredFormat, window>>
    /\ UNCHANGED notSceneVars

\* The render closure up to `await this._device.queue.onSubmittedWorkDone()`.
\* The angle is counted in steps of 0.1.
RotatingFrame ==
    /\ scene.name = "rotating"
    /\ scene.stage = "running"
    /\ scene.frame < MaxFrames
    /\ scene.pending > 0
    /\ LET modelViewMatrixUniformBufferUpdate ==
               CreateGPUBuffer(buffers, Floats(16), {"COPY_SRC"})
           normalMatrixUniformBufferUpdate ==
               CreateGPUBuffer(modelViewMatrixUniformBufferUpdate.heap, Floats(16), {"COPY_SRC"})
           copies ==
               <<Copy(modelViewMatrixUniformBufferUpdate.buffer, local.transformationMatrixBuffer,
                      16 * BytesPerElement("Float32Array")),
                 Copy(normalMatrixUniformBufferUpdate.buffer, local.normalMatrixBuffer,
                      16 * BytesPerElement("Float32Array"))>>
           t1 == GetCurrentTexture(textures, canvas, preferredFormat)
           target == CreateRenderTarget(t1, canvas, preferredFormat, Len(t1), ClearRed,
                         ctx.msaa, local.depthTexture)
           pipeline == CreatePipeline(pipelines, ctx, "shaderCode", <<"float32x3", "float32x3">>,
                           <<local.bindGroup.bindGroupLayout>>, "bgra8unorm", FALSE)
           pass == RenderPass(target.descriptor,
                       [width |-> canvas.width, height |-> canvas.height],
                       pipeline.pipeline,
                       <<local.positionBuffer, local.normalBuffer>>,
                       local.bindGroup.bindGroup,
                       [indexBuffer |-> local.indexBuffer,
                        indexCount |-> 3 * local.triangles, instanceCount |-> 1])
       IN  /\ textures' = target.heap
           /\ buffers' = normalMatrixUniformBufferUpdate.heap
           /\ pipelines' = pipeline.heap
           /\ queue' = Append(queue, CommandBuffer(copies, <<pass>>))
           /\ local' = [local EXCEPT
                           !.angle = @ + 1,
                           !.ops = <<"createUpdateBuffers", "createCommandEncoder">>
                                   \o [n \in 1..Len(copies) |-> "copyBufferToBuffer"]
                                   \o <<"beginRenderPass", "endRenderPass", "submit">>]
    /\ scene' = [scene EXCEPT !.frame = @ + 1, !.pending = @ - 1, !.stage = "awaitWorkDone"]
    /\ UNCHANGED <<ctx, captures, canvas, preferredFormat, window>>
    /\ UNCHANGED notSceneVars

\* onSubmittedWorkDone() settles: the flag is looked at, and cleared before
\* canvas.toBlob is called; then the next frame is requested.
RotatingWorkDone ==
    /\ scene.name = "rotating"
    /\ scene.stage = "awaitWorkDone"
    /\ IF ctx.takeScreenshot
       THEN /\ ctx' = ClearFlag(ctx)
            /\ captures' = Append(captures,
                   [submitted |-> Len(queue), frame |-> scene.frame,
                    flag |-> ClearFlag(ctx).takeScreenshot])
            /\ local' = [local EXCEPT !.ops = @ \o <<"workDone", "clearFlag", "toBlob",
                                                      "requestAnimationFrame">>]
       ELSE /\ UNCHANGED <<ctx, captures>>
            /\ local' = [local EXCEPT !.ops = @ \o <<"workDone", "requestAnimationFrame">>]
    /\ scene' = [scene EXCEPT !.stage = "running", !.pending = @ + 1]
    /\ UNCHANGED <<queue, pipelines, buffers, deviceVars>>
    /\ UNCHANGED notSceneVars

RotatingInit ==
    /\ ctx \in Contexts
    /\ canvas \in [width : Dims, height : {1}, clientWidth : {1}, clientHeight : {1}]
    /\ preferredFormat = "bgra8unorm"
    /\ window = [devicePixelRatio |-> Scale]
    /\ textures = <<>>
    /\ buffers = <<>>
    /\ queue = <<>>
    /\ scene \in [name : {"rotating"}, stage : {"fetch"}, frame : {0}, pending : {0},
                  sets : {0}, promise : {"pending"}, caller : {RenderSceneResult("pending")},
                  triangles : 1..MaxTriangles]
    /\ local = [none |-> TRUE]
    /\ pipelines = <<>>
    /\ captures = <<>>

(***************************************************************************)
(* render_video_texture                                                    *)
(***************************************************************************)

MaxVideoEvents == 2

\* What the texture holds once the bitmap of the n-th time update is copied.
VideoFrame(n) == IF n = 1 THEN "videoFrame1" ELSE IF n = 2 THEN "videoFrame2" ELSE "videoFrameLater"

\* `await VideoLoader.create(videoUrl)` settles, and the rest of the
\* function runs: the video texture, the time-update handler, the buffers,
\* the bind group, the first frame request.
VideoSetup ==
    /\ scene.name = "video"
    /\ scene.stage = "loader"
    /\ LET t1 == CreateTexture(textures, scene.video.width, scene.video.height)
           videoTexture == Len(t1)
           transformationMatrixBuffer == CreateGPUBuffer(buffers, Floats(16), {"UNIFORM"})
           projectionMatrixBuffer ==
               CreateGPUBuffer(transformationMatrixBuffer.heap, Floats(16), {"UNIFORM"})
           sampler == 1
           group == CreateUniformBindGroup(
               <<BufferInput(StageVertex, FALSE, transformationMatrixBuffer.buffer),
                 BufferInput(StageVertex, FALSE, projectionMatrixBuffer.buffer),
                 TextureInput(StageFragment, videoTexture),
                 SamplerInput(StageFragment, sampler)>>)
           positionBuffer == CreateGPUBuffer(projectionMatrixBuffer.heap, Floats(12), {"VERTEX"})
           texCoordBuffer == CreateGPUBuffer(positionBuffer.heap, Floats(8), {"VERTEX"})
       IN  /\ textures' = t1
           /\ buffers' = texCoordBuffer.heap
           /\ local' = [videoTexture |-> videoTexture,
                        bindGroup |-> group,
                        positionBuffer |-> positionBuffer.buffer,
                        texCoordBuffer |-> texCoordBuffer.buffer,
                        decoding |-> {},
                        ops |-> <<>>]
    /\ scene' = [scene EXCEPT !.stage = "running", !.promise = "fulfilled", !.pending = 1]
    /\ UNCHANGED <<ctx, queue, pipelines, captures, canvas, preferredFormat, window>>
    /\ UNCHANGED notSceneVars

\* The video element fires timeupdate: the handler starts decoding the
\* current frame and awaits the bitmap.
VideoTimeUpdate ==
    /\ scene.name = "video"
    /\ scene.stage = "running"
    /\ scene.events < MaxVideoEvents
    /\ scene' = [scene EXCEPT !.events = @ + 1]
    /\ local' = [local EXCEPT !.decoding = @ \cup {scene.events + 1}]
    /\ UNCHANGED <<ctx, queue, pipelines, captures, buffers, deviceVars>>
    /\ UNCHANGED notSceneVars

\* createImageBitmap settles for the handler of the n-th event, and the
\* handler copies the bitmap into the video texture.
VideoDecoded(n) ==
    /\ scene.name = "video"
    /\ scene.stage = "running"
    /\ n \in local.decoding
    /\ local' = [local EXCEPT !.decoding = @ \ {n}]
    /\ textures' = [textures EXCEPT ![local.videoTexture].content = VideoFrame(n)]
    /\ UNCHANGED <<ctx, queue, scene, pipelines, captures, buffers, canvas, preferredFormat,
                   window>>
    /\ UNCHANGED notSceneVars

\* The animation scheduler runs the render closure.
VideoFrameDrawn ==
    /\ scene.name = "video"
    /\ scene.stage = "running"
    /\ scene.frame < MaxFrames
    /\ scene.pending > 0
    /\ LET t1 == GetCurrentTexture(textures, canvas, preferredFormat)
           target == CreateRenderTarget(t1, canvas, preferredFormat, Len(t1), ClearRed,
                         ctx.msaa, 0)
           pipeline == CreatePipeline(pipelines, ctx, "shaderCode", <<"float32x3", "float32x2">>,
                           <<local.bindGroup.bindGroupLayout>>, "bgra8unorm", FALSE)
           pass == RenderPass(target.descriptor,
                       [width |-> canvas.width, height |-> canvas.height],
                       pipeline.pipeline,
                       <<local.positionBuffer, local.texCoordBuffer>>,
                       local.bindGroup.bindGroup,
                       [vertexCount |-> scene.vertexCount, instanceCount |-> 1,
                        sampled |-> textures[local.videoTexture].content])
       IN  /\ textures' = target.heap
           /\ pipelines' = pipeline.heap
           /\ queue' = Append(queue, CommandBuffer(<<>>, <<pass>>))
           /\ local' = [local EXCEPT !.ops = <<"createCommandEncoder">> \o FrameTail]
    /\ scene' = [scene EXCEPT !.frame = @ + 1, !.pending = @ - 1 + 1]
    /\ UNCHANGED <<ctx, captures, buffers, canvas, preferredFormat, window>>
    /\ UNCHANGED notSceneVars

VideoInit ==
    /\ ctx \in Contexts
    /\ canvas \in [width : Dims, height : {1}, clientWidth : {1}, clientHeight : {1}]
    /\ preferredFormat = "bgra8unorm"
    /\ window = [devicePixelRatio |-> Scale]
    /\ textures = <<>>
    /\ buffers = <<>>
    /\ queue = <<>>
    /\ scene \in [name : {"video"}, stage : {"loader"}, frame : {0}, pending : {0},
                  sets : {0}, events : {0}, promise : {"pending"},
                  caller : {RenderSceneResult("pending")},
                  vertexCount : {4}, video : [width : Dims, height : {1}]]
    /\ local = [none |-> TRUE]
    /\ pipelines = <<>>
    /\ captures = <<>>

(***************************************************************************)
(* VideoLoader.create                                                      *)
(***************************************************************************)

\* How often each of the two events fires at most.
MaxLoaderEvents == 4

\* A listener that resolves as soon as either event has fired.
ReadyEither(playing, timeUpdated) == playing \/ timeUpdated

\* `if (playing && timeUpdated)`
Ready(playing, timeUpdated) == playing /\ timeUpdated

\* resolve(): the first call settles the promise, later calls do nothing.
Resolve(l) ==
    IF l.resolvedAt = 0 THEN [l EXCEPT !.resolvedAt = Len(l.history)] ELSE l

\* How often the event is in the history.
Fired(l, event) == Cardinality({k \in 1..Len(l.history) : l.history[k] = event})

\* The listener of "playing".
LoaderPlaying ==
    /\ scene.name = "loader"
    /\ Fired(local, "playing") < MaxLoaderEvents
    /\ LET l == [local EXCEPT !.playing = TRUE, !.history = Append(@, "playing")]
       IN  local' = IF Ready(l.playing, l.timeUpdated) THEN Resolve(l) ELSE l
    /\ UNCHANGED <<ctx, queue, scene, pipelines, captures, buffers, deviceVars>>
    /\ UNCHANGED notSceneVars

\* The listener of "timeupdate".
LoaderTimeUpdate ==
    /\ scene.name = "loader"
    /\ Fired(local, "timeupdate") < MaxLoaderEvents
    /\ LET l == [local EXCEPT !.timeUpdated = TRUE, !.history = Append(@, "timeupdate")]
       IN  local' = IF Ready(l.playing, l.timeUpdated) THEN Resolve(l) ELSE l
    /\ UNCHANGED <<ctx, queue, scene, pipelines, captures, buffers, deviceVars>>
    /\ UNCHANGED notSceneVars

\* `await videoReadyPromise` is over: create returns the loader.
LoaderReturn ==
    /\ scene.name = "loader"
    /\ scene.stage = "awaiting"
    /\ local.resolvedAt # 0
    /\ scene' = [scene EXCEPT !.stage = "returned", !.returnedAt = Len(local.history)]
    /\ UNCHANGED <<ctx, queue, local, pipelines, captures, buffers, deviceVars>>
    /\ UNCHANGED notSceneVars

\* create has run up to its await: both listeners are added, play() called.
LoaderInit ==
    /\ ctx = NoContext
    /\ DeviceIdle
    /\ buffers = <<>>
    /\ queue = <<>>
    /\ scene = [name |-> "loader", stage |-> "awaiting", returnedAt |-> 0]
    /\ local = [playing |-> FALSE, timeUpdated |-> FALSE, resolvedAt |-> 0, history |-> <<>>]
    /\ pipelines = <<>>
    /\ captures = <<>>

(***************************************************************************)
(* render_text                                                             *)
(*                                                                         *)
(* The text is drawn on an offscreen canvas and measured; the texture that *)
(* takes the canvas is given a power-of-two width computed from the        *)
(* measured width. A measured width is a whole part and a fraction in      *)
(* units of 1/Scale.                                                       *)
(***************************************************************************)

\* The largest small measured width of the model, in whole pixels.
MaxTextWidth == 9

\* The font size the text scene passes: the texture's height.
FontSize == 32

\* The width of the integers `<<` and Math.clz32 work on.
WordBits == 32

RECURSIVE Pow2(_)
Pow2(k) == IF k = 0 THEN 1 ELSE 2 * Pow2(k - 1)

\* Measured widths at and around the largest shift that still fits a signed
\* word, and the largest width whose ceiling is below 2^(WordBits - 1).
LargeWidths ==
    {Pow2(WordBits - 2) - 1, Pow2(WordBits - 2), Pow2(WordBits - 2) + 1,
     Pow2(WordBits - 2) + (Pow2(WordBits - 2) - 1)}

\* What ctx.measureText(text).width may be.
TextWidths ==
    {[whole |-> n, fraction |-> f] : n \in 0..MaxTextWidth, f \in 0..(Scale - 1)}
    \cup {[whole |-> n, fraction |-> 0] : n \in LargeWidths}

\* Math.ceil
Ceil(x) == x.whole + (IF x.fraction > 0 THEN 1 ELSE 0)

\* The number of binary digits of n, 0 for 0.
RECURSIVE BitLength(_)
BitLength(n) == IF n = 0 THEN 0 ELSE 1 + BitLength(n \div 2)

\* Math.clz32(n), for 0 <= n < 2^(WordBits - 1): the leading zero bits of the
\* word.
Clz32(n) == WordBits - BitLength(n)

\* `1 << count`: the count is taken modulo the word's width, and the result
\* is the word read as a signed integer, so that the top bit alone is
\* -2^(WordBits - 1).
ShiftLeftOne(count) ==
    LET shift == count % WordBits
    IN  IF shift = WordBits - 1
        THEN (0 - Pow2(WordBits - 2)) - Pow2(WordBits - 2)
        ELSE Pow2(shift)

\* `1 << (32 - Math.clz32(Math.ceil(textMeasure.width)))`
NearestPowerof2(width) == ShiftLeftOne(WordBits - Clz32(Ceil(width)))

\* render_text, which awaits nothing: one step from call to return. The size
\* of a texture is a pair of unsigned longs that must be in range, so
\* createTexture throws on a negative width and the promise is rejected.
RenderText ==
    /\ scene.name = "text"
    /\ scene.stage = "called"
    /\ LET nearestPowerof2 == NearestPowerof2(scene.textMeasure)
       IN  IF nearestPowerof2 < 0
           THEN /\ local' = [nearestPowerof2 |-> nearestPowerof2]
                /\ scene' = [scene EXCEPT !.stage = "thrown", !.promise = "rejected"]
                /\ UNCHANGED <<textures, buffers, pipelines, queue>>
           ELSE LET t1 == [CreateTexture(textures, nearestPowerof2, FontSize)
                              EXCEPT ![Len(textures) + 1].content = "canvas"]
                    texture == Len(t1)
                    transformationMatrixBuffer ==
                        CreateGPUBuffer(buffers, Floats(16), {"UNIFORM"})
                    projectionMatrixBuffer ==
                        CreateGPUBuffer(transformationMatrixBuffer.heap, Floats(16), {"UNIFORM"})
                    sampler == 1
                    group == CreateUniformBindGroup(
                        <<BufferInput(StageVertex, FALSE, transformationMatrixBuffer.buffer),
                          BufferInput(StageVertex, FALSE, projectionMatrixBuffer.buffer),
                          TextureInput(StageFragment, texture),
                          SamplerInput(StageFragment, sampler)>>)
                    w == [width |-> scene.textMeasure, over |-> nearestPowerof2]
                    positionBuffer ==
                        CreateGPUBuffer(projectionMatrixBuffer.heap, Floats(12), {"VERTEX"})
                    texCoordBuffer == CreateGPUBuffer(positionBuffer.heap, Floats(8), {"VERTEX"})
                    t2 == GetCurrentTexture(t1, canvas, preferredFormat)
                    target == CreateRenderTarget(t2, canvas, preferredFormat, Len(t2), ClearRed,
                                  ctx.msaa, 0)
                    pipeline == CreatePipeline(pipelines, ctx, "shaderCode",
                                    <<"float32x3", "float32x2">>,
                                    <<group.bindGroupLayout>>, "bgra8unorm", TRUE)
                    pass == RenderPass(target.descriptor,
                                [width |-> canvas.width, height |-> canvas.height],
                                pipeline.pipeline,
                                <<positionBuffer.buffer, texCoordBuffer.buffer>>,
                                group.bindGroup,
                                [vertexCount |-> 4, instanceCount |-> 1])
                IN  /\ textures' = target.heap
                    /\ buffers' = texCoordBuffer.heap
                    /\ pipelines' = pipeline.heap
                    /\ queue' = Append(queue, CommandBuffer(<<>>, <<pass>>))
                    /\ local' = [nearestPowerof2 |-> nearestPowerof2, texture |-> texture,
                                 w |-> w]
                    /\ scene' = [scene EXCEPT !.stage = "returned", !.promise = "fulfilled"]
    /\ UNCHANGED <<ctx, captures, canvas, preferredFormat, window>>
    /\ UNCHANGED notSceneVars

TextInit ==
    /\ ctx \in Contexts
    /\ canvas \in [width : Dims, height : Dims, clientWidth : {1}, clientHeight : {1}]
    /\ preferredFormat = "bgra8unorm"
    /\ window = [devicePixelRatio |-> Scale]
    /\ textures = <<>>
    /\ buffers = <<>>
    /\ queue = <<>>
    /\ scene \in [name : {"text"}, stage : {"called"}, promise : {"pending"},
                  textMeasure : TextWidths]
    /\ local = [none |-> TRUE]
    /\ pipelines = <<>>
    /\ captures = <<>>

(***************************************************************************)
(* App: the effect selection (App.tsx, the version with selectedEffect)    *)
(*                                                                         *)
(* Every run of the effect calls render(), which takes the one context     *)
(* and starts the scene renderer of the selected effect on it. The         *)
(* renderers then started are the loops of scene.loops; each keeps the     *)
(* variables its render closure captured in its own local.                 *)
(***************************************************************************)

\* How often the selection is changed, and the canvas resized, at most.
MaxSelections == 2
MaxResizes == 1

\* The options render() passes to WebGPUContext.create.
AppOptions ==
    [canvas |-> 1, primitiveState |-> "triangle-list", depthStencilState |-> TRUE,
     msaa |-> Undefined]

\* The images the watercolor scene loads.
AppImage == [width |-> 1, height |-> 1]

\* The renderer render() starts for the effect, before its loads settle.
NewLoop(effect) ==
    [effect |-> effect, stage |-> "loading", pending |-> 0, frame |-> 0,
     superseded |-> FALSE, stale |-> 0, local |-> [none |-> TRUE]]

\* handleEffectChange: the selection changes, the effect runs again and
\* render() starts the renderer of the new selection; nothing is done about
\* the renderers started before.
SelectEffect(effect) ==
    /\ scene.name = "app"
    /\ effect # scene.selectedEffect
    /\ scene.selections < MaxSelections
    /\ scene' = [scene EXCEPT
                    !.selectedEffect = effect,
                    !.selections = @ + 1,
                    !.loops = Append([i \in 1..Len(@) |-> [@[i] EXCEPT !.superseded = TRUE]],
                                     NewLoop(effect))]
    /\ UNCHANGED <<ctx, queue, local, pipelines, captures, buffers, deviceVars>>
    /\ UNCHANGED notSceneVars

\* The loads of the i-th renderer have settled (a failed load starts no
\* loop and is left to the renderers' own machines): its setup runs on the
\* shared device and canvas and requests its first frame.
AppSetup(i) ==
    /\ scene.name = "app"
    /\ i \in 1..Len(scene.loops)
    /\ scene.loops[i].stage = "loading"
    /\ IF scene.loops[i].effect = "watercolor"
       THEN LET made == WatercolorResources(ctx, textures, buffers, pipelines, AppImage)
            IN  /\ buffers' = made.buffers
                /\ textures' = made.textures
                /\ pipelines' = made.pipelines
                /\ scene' = [scene EXCEPT !.loops[i].stage = "running",
                                          !.loops[i].pending = 1,
                                          !.loops[i].local = made.local]
       ELSE LET made == ObjModelResources(ctx, canvas, textures, buffers, scene.triangles)
            IN  /\ buffers' = made.buffers
                /\ textures' = made.textures
                /\ pipelines' = pipelines
                /\ scene' = [scene EXCEPT
                                !.loops[i].stage = IF made.threw THEN "thrown" ELSE "running",
                                !.loops[i].pending = IF made.threw THEN 0 ELSE 1,
                                !.loops[i].local = made.local]
    /\ UNCHANGED <<ctx, queue, local, captures, canvas, preferredFormat, window>>
    /\ UNCHANGED notSceneVars

\* The animation scheduler runs the frame callback of the i-th renderer.
AppFrame(i) ==
    /\ scene.name = "app"
    /\ i \in 1..Len(scene.loops)
    /\ scene.loops[i].stage = "running"
    /\ scene.loops[i].pending > 0
    /\ scene.loops[i].frame < MaxFrames
    /\ Len(queue) < 2 * MaxFrames
    /\ LET loop == scene.loops[i]
           drawn == [loop EXCEPT !.frame = @ + 1,
                                 !.pending = @ - 1 + 1,
                                 !.stale = IF loop.superseded THEN @ + 1 ELSE @]
       IN  IF loop.effect = "watercolor"
           THEN LET frame == WatercolorRender(loop.local, canvas, preferredFormat, textures)
                IN  /\ textures' = frame.textures
                    /\ queue' = Append(queue, frame.commandBuffer)
                    /\ scene' = [scene EXCEPT !.loops[i] = drawn,
                                              !.submitters = Append(@, i)]
                    /\ UNCHANGED <<canvas, buffers, pipelines>>
           ELSE LET frame == ObjModelRender(loop.local, ctx, canvas, window, preferredFormat,
                                 textures, buffers, pipelines)
                IN  /\ canvas' = frame.canvas
                    /\ textures' = frame.textures
                    /\ buffers' = frame.buffers
                    /\ pipelines' = frame.pipelines
                    /\ queue' = Append(queue, frame.commandBuffer)
                    /\ scene' = [scene EXCEPT !.loops[i] = [drawn EXCEPT !.local = frame.local],
                                              !.submitters = Append(@, i)]
    /\ UNCHANGED <<ctx, local, captures, preferredFormat, window>>
    /\ UNCHANGED notSceneVars

\* The layout changes the canvas's client width.
AppResize(clientWidth) ==
    /\ scene.name = "app"
    /\ clientWidth # canvas.clientWidth
    /\ scene.resizes < MaxResizes
    /\ canvas' = [canvas EXCEPT !.clientWidth = clientWidth]
    /\ scene' = [scene EXCEPT !.resizes = @ + 1]
    /\ UNCHANGED <<ctx, queue, local, pipelines, captures, buffers, textures, preferredFormat,
                   window>>
    /\ UNCHANGED notSceneVars

\* The component is mounted: the effect has run once, for the effect "none".
AppInit ==
    /\ ctx = NewContext(AppOptions)
    /\ canvas = [width |-> 1, height |-> 1, clientWidth |-> 1, clientHeight |-> 1]
    /\ preferredFormat = "bgra8unorm"
    /\ window = [devicePixelRatio |-> Scale]
    /\ textures = <<>>
    /\ buffers = <<>>
    /\ queue = <<>>
    /\ scene \in [name : {"app"}, selectedEffect : {"none"}, selections : {0},
                  resizes : {0}, loops : {<<NewLoop("none")>>}, submitters : {<<>>},
                  triangles : {MaxTriangles}]
    /\ local = [none |-> TRUE]
    /\ pipelines = <<>>
    /\ captures = <<>>

(***************************************************************************)
(* The specifications                                                      *)
(***************************************************************************)

Init ==
    /\ CreateInit
    /\ BindGroupIdle
    /\ BufferIdle
    /\ DeviceIdle
    /\ RenderTargetIdle
    /\ SceneIdle

Next ==
    \/ \E p \in Calls, o \in OptionsSet : CreateCall(p, o)
    \/ \E p \in Calls, adapter \in BOOLEAN : AdapterResolved(p, adapter)
    \/ \E p \in Calls, device \in BOOLEAN, context \in BOOLEAN : DeviceResolved(p, device, context)
    \/ GpuChange

Spec == Init /\ [][Next]_vars

InitBindGroup ==
    /\ BindGroupInit
    /\ CreateIdle
    /\ BufferIdle
    /\ DeviceIdle
    /\ RenderTargetIdle
    /\ SceneIdle

NextBindGroup == BindGroupCall

SpecBindGroup == InitBindGroup /\ [][NextBindGroup]_vars

InitBuffer ==
    /\ BufferInit
    /\ CreateIdle
    /\ BindGroupIdle
    /\ DeviceIdle
    /\ RenderTargetIdle
    /\ SceneIdle

NextBuffer == BufferCall

SpecBuffer == InitBuffer /\ [][NextBuffer]_vars

InitTarget ==
    /\ RenderTargetInit
    /\ CreateIdle
    /\ BindGroupIdle
    /\ BufferIdle
    /\ SceneIdle

NextTarget == RenderTargetCall

SpecTarget == InitTarget /\ [][NextTarget]_vars

InitGaussian ==
    /\ GaussianInit
    /\ CreateIdle
    /\ BindGroupIdle
    /\ bufData = [arrayType |-> "Float32Array", elements |-> <<>>]
    /\ bufUsage = {}
    /\ bufResult = NoBufferResult
    /\ RenderTargetIdle

NextGaussian ==
    \/ \E ok \in BOOLEAN : GaussianLoad(ok)
    \/ \E ok \in BOOLEAN : GaussianRender(ok)

SpecGaussian == InitGaussian /\ [][NextGaussian]_vars

InitWatercolor ==
    /\ WatercolorInit
    /\ CreateIdle
    /\ BindGroupIdle
    /\ bufData = [arrayType |-> "Float32Array", elements |-> <<>>]
    /\ bufUsage = {}
    /\ bufResult = NoBufferResult
    /\ RenderTargetIdle

NextWatercolor ==
    \/ \E ok \in BOOLEAN : WatercolorLoad(ok)
    \/ \E ok \in BOOLEAN : WatercolorSetup(ok)
    \/ WatercolorFrame

SpecWatercolor == InitWatercolor /\ [][NextWatercolor]_vars

InitObjModel ==
    /\ ObjModelInit
    /\ CreateIdle
    /\ BindGroupIdle
    /\ bufData = [arrayType |-> "Float32Array", elements |-> <<>>]
    /\ bufUsage = {}
    /\ bufResult = NoBufferResult
    /\ RenderTargetIdle

NextObjModel ==
    \/ \E ok \in BOOLEAN : ObjModelLoad(ok)
    \/ \E ok \in BOOLEAN : ObjModelSetup(ok)
    \/ \E w \in Dims, h \in Dims, d \in DevicePixelRatios : Resize(w, h, d)
    \/ ObjModelFrame
    \/ ControlsInput

SpecObjModel == InitObjModel /\ [][NextObjModel]_vars

\* The three animated renderers, one of them running.
InitAnimated ==
    /\ \/ ObjModelInit /\ canvas.height = 1 /\ scene.triangles % 2 = 0
       \/ RotatingInit
       \/ VideoInit
    /\ CreateIdle
    /\ BindGroupIdle
    /\ bufData = [arrayType |-> "Float32Array", elements |-> <<>>]
    /\ bufUsage = {}
    /\ bufResult = NoBufferResult
    /\ RenderTargetIdle

NextAnimated ==
    \/ \E ok \in BOOLEAN : ObjModelLoad(ok)
    \/ \E ok \in BOOLEAN : ObjModelSetup(ok)
    \/ \E w \in Dims : Resize(w, 1, window.devicePixelRatio)
    \/ ObjModelFrame
    \/ \E ok \in BOOLEAN : RotatingLoad(ok)
    \/ \E ok \in BOOLEAN : RotatingSetup(ok)
    \/ RotatingFrame
    \/ RotatingWorkDone
    \/ VideoSetup
    \/ VideoTimeUpdate
    \/ \E n \in 1..MaxVideoEvents : VideoDecoded(n)
    \/ VideoFrameDrawn
    \/ TakeScreenshot

SpecAnimated == InitAnimated /\ [][NextAnimated]_vars

InitKernel ==
    /\ KernelInit
    /\ CreateIdle
    /\ BindGroupIdle
    /\ bufData = [arrayType |-> "Float32Array", elements |-> <<>>]
    /\ bufUsage = {}
    /\ bufResult = NoBufferResult
    /\ RenderTargetIdle

NextKernel ==
    \/ KernelGenerate
    \/ KernelUpload

SpecKernel == InitKernel /\ [][NextKernel]_vars

InitApp ==
    /\ AppInit
    /\ CreateIdle
    /\ BindGroupIdle
    /\ bufData = [arrayType |-> "Float32Array", elements |-> <<>>]
    /\ bufUsage = {}
    /\ bufResult = NoBufferResult
    /\ RenderTargetIdle

NextApp ==
    \/ \E effect \in {"none", "watercolor"} : SelectEffect(effect)
    \/ \E i \in 1..(MaxSelections + 1) : AppSetup(i)
    \/ \E i \in 1..(MaxSelections + 1) : AppFrame(i)
    \/ \E clientWidth \in Dims : AppResize(clientWidth)

SpecApp == InitApp /\ [][NextApp]_vars

InitLoader ==
    /\ LoaderInit
    /\ CreateIdle
    /\ BindGroupIdle
    /\ bufData = [arrayType |-> "Float32Array", elements |-> <<>>]
    /\ bufUsage = {}
    /\ bufResult = NoBufferResult
    /\ RenderTargetIdle

NextLoader ==
    \/ LoaderPlaying
    \/ LoaderTimeUpdate
    \/ LoaderReturn

SpecLoader == InitLoader /\ [][NextLoader]_vars

InitText ==
    /\ TextInit
    /\ CreateIdle
    /\ BindGroupIdle
    /\ bufData = [arrayType |-> "Float32Array", elements |-> <<>>]
    /\ bufUsage = {}
    /\ bufResult = NoBufferResult
    /\ RenderTargetIdle

NextText == RenderText

SpecText == InitText /\ [][NextText]_vars

(***************************************************************************)
(* Claims about WebGPUContext.create                                       *)
(***************************************************************************)

\* C1: whatever the interleaving of create calls, at most one WebGPUContext
\* is ever constructed and every successful call returns that same instance.
C1_SingleInstance ==
    /\ Len(instances) <= 1
    /\ \A p, q \in Calls :
          (result[p].instance # 0 /\ result[q].instance # 0)
              => result[p].instance = result[q].instance

\* C2: a create call that starts when an instance is stored returns that
\* instance and no error, whatever its options and whether or not the GPU
\* API is still there; it makes no platform request, configures nothing and
\* leaves the stored instance and every constructed context as they were.
C2_LaterCallReturnsExisting ==
    [][\A p \in Calls :
          (pc[p] = "idle" /\ pc'[p] # "idle" /\ instance # 0)
              => /\ pc'[p] = "done"
                 /\ result'[p] = InstanceResult(instance)
                 /\ steps'[p] = {}
                 /\ instance' = instance
                 /\ instances' = instances]_vars

\* A second call, given another canvas and other state while the GPU API
\* was absent, has returned the instance the first call constructed.
C2_Witness ==
    \E p \in Calls :
        /\ pc[p] = "done"
        /\ steps[p] = {}
        /\ ~gpuAtStart[p]
        /\ result[p].instance # 0
        /\ result[p].error = ""
        /\ options[p].canvas # instances[result[p].instance].canvas
        /\ options[p].msaa # instances[result[p].instance].msaa
        /\ options[p].primitiveState # instances[result[p].instance].primitiveState
        /\ options[p].depthStencilState # instances[result[p].instance].depthStencilState

Errors == {ErrUnsupported, ErrAdapter, ErrDevice, ErrContext}

\* The requests a call has made when it returns the given error.
StepsOfError(e) ==
    CASE e = ErrUnsupported -> {}
      [] e = ErrAdapter -> {"requestAdapter", "noAdapter"}
      [] e = ErrDevice -> {"requestAdapter", "requestDevice", "noDevice"}
      [] e = ErrContext -> {"requestAdapter", "requestDevice", "getContext", "noContext"}
      [] OTHER -> {"none"}

\* C3: with no instance stored, create checks GPU API, adapter, device and
\* surface context in that order; the first step that fails ends the call
\* with that step's error alone (four distinct errors, never beside an
\* instance), no later step is made, the surface is never configured and
\* the call stores no instance.
C3_FirstFailureWins ==
    /\ Cardinality(Errors) = 4
    /\ \A p \in Calls :
        /\ ~(result[p].instance # 0 /\ result[p].error # "")
        /\ (pc[p] = "done" /\ result[p].instance = 0)
              => /\ result[p].error \in Errors
                 /\ steps[p] = StepsOfError(result[p].error)
                 /\ (result[p].error = ErrUnsupported) = ~gpuAtStart[p]
        /\ ("noAdapter" \in steps[p]) => result[p] = ErrorResult(ErrAdapter)
        /\ ("noDevice" \in steps[p]) => result[p] = ErrorResult(ErrDevice)
        /\ ("noContext" \in steps[p]) => result[p] = ErrorResult(ErrContext)
    /\ (\A p \in Calls : "construct" \notin steps[p]) => (instance = 0 /\ instances = <<>>)

\* One call failed at the last check, the surface context, and another at
\* the first, while nothing was stored.
C3_Witness ==
    /\ instance = 0
    /\ \E p, q \in Calls :
        /\ pc[p] = "done" /\ result[p] = ErrorResult(ErrContext)
        /\ pc[q] = "done" /\ result[q] = ErrorResult(ErrUnsupported)

(***************************************************************************)
(* Claims about _createUniformBindGroup                                    *)
(***************************************************************************)

\* C4: for a descriptor list of length N the layout and the bind group both
\* get exactly N entries, and in both the entry at position i (from 0)
\* carries binding index i: the indices are 0..N-1 in input order and the
\* layout and the group agree on each.
C4_BindingIsPosition ==
    bgResult.returned =>
        LET N == Len(bgInputs)
            layoutEntries == bgResult.bindGroupLayout.entries
            groupEntries == bgResult.bindGroup.entries
        IN  /\ Len(layoutEntries) = N
            /\ Len(groupEntries) = N
            /\ \A k \in 1..N :
                /\ layoutEntries[k].binding = k - 1
                /\ groupEntries[k].binding = k - 1
                /\ layoutEntries[k].binding = groupEntries[k].binding

\* A list of the greatest length holding a buffer, a texture and a sampler
\* has been turned into a layout and a group.
C4_Witness ==
    /\ bgResult.returned
    /\ Len(bgInputs) = MaxDescriptors
    /\ {bgInputs[k].type : k \in 1..Len(bgInputs)} = {"buffer", "texture", "sampler"}
    /\ Len(bgResult.bindGroup.entries) = MaxDescriptors

(***************************************************************************)
(* Claims about _createGPUBuffer                                           *)
(***************************************************************************)

\* C8: for every Float32Array or Uint16Array payload the call creates a
\* buffer whose size is the payload's size in bytes; what is read from the
\* mapped range before unmap is the payload, element for element; and the
\* buffer is unmapped when the call returns.
C8_BufferRoundTrip ==
    bufResult.status # "none" =>
        /\ bufResult.status = "returned"
        /\ bufResult.buffer \in 1..Len(buffers)
        /\ buffers[bufResult.buffer].size = ByteLength(bufData)
        /\ bufResult.mappedRead = bufData.elements
        /\ buffers[bufResult.buffer].mapState = "unmapped"

\* C9: the call has no way to fail: whatever the payload, an odd number of
\* 16-bit indices and the empty payload included, it returns a buffer, and
\* the buffer is unmapped.
C9_NoFailurePath ==
    bufResult.status # "none" =>
        /\ bufResult.status # "thrown"
        /\ buffers # <<>>
        /\ \A b \in 1..Len(buffers) : buffers[b].mapState = "unmapped"

(***************************************************************************)
(* Claims about _createRenderTarget                                        *)
(***************************************************************************)

\* C10: given a sample count greater than 1 the call creates an intermediate
\* multisampled texture, attaches its view and makes the caller's texture
\* the resolve target; given any other sample count (none, 0 or 1) it
\* attaches the caller's texture directly, sets no resolve target and
\* creates no texture.
C10_MsaaOnlyAboveOne ==
    rtResult.returned =>
        LET attachment == rtResult.descriptor.colorAttachments[1]
        IN  IF rtArgs.msaa # Undefined /\ rtArgs.msaa > 1
            THEN /\ rtResult.created = 1
                 /\ textures[Len(textures)].sampleCount = rtArgs.msaa
                 /\ attachment.view = View(Len(textures))
                 /\ attachment.resolveTarget = View(rtArgs.colorAttachmentTexture)
            ELSE /\ rtResult.created = 0
                 /\ attachment.view = View(rtArgs.colorAttachmentTexture)
                 /\ attachment.resolveTarget = NoView

(***************************************************************************)
(* Claims about render_gaussian_blur                                       *)
(***************************************************************************)

\* C6: the renderer records exactly two render passes into one command
\* buffer and submits once. The first pass has the intermediate texture as
\* its only colour attachment and samples the source image; the second has
\* the surface texture as its colour attachment and samples exactly the
\* intermediate texture; in neither is an attached texture also bound.
C6_TwoPassesOneSubmit ==
    (scene.name = "gaussian" /\ scene.stage = "done") =>
        /\ Len(queue) = 1
        /\ Len(queue[1].passes) = 2
        /\ LET passOne == queue[1].passes[1]
               passTwo == queue[1].passes[2]
           IN  /\ AttachedTextures(passOne) = {local.passOneTexture}
               /\ Len(passOne.colorAttachments) = 1
               /\ local.texture \in BoundTextures(passOne)
               /\ textures[local.texture].content = "image"
               /\ Len(passTwo.colorAttachments) = 1
               /\ passTwo.colorAttachments[1].view = View(local.surfaceTexture)
               /\ textures[local.surfaceTexture] = SurfaceTexture(canvas, preferredFormat)
               /\ BoundTextures(passTwo) = {local.passOneTexture}
               /\ local.passOneTexture # local.texture
               /\ AttachedTextures(passOne) \cap BoundTextures(passOne) = {}
               /\ AttachedTextures(passTwo) \cap BoundTextures(passTwo) = {}

\* The image was fetched and decoded and the renderer has submitted, on a
\* context configured with msaa 4.
C6_Witness ==
    /\ scene.name = "gaussian"
    /\ scene.stage = "done"
    /\ ctx.msaa = 4
    /\ Len(queue) = 1

(***************************************************************************)
(* Claims about render_watercolor                                          *)
(***************************************************************************)

\* The textures a pass writes: its colour attachments and its depth
\* attachment.
WrittenTextures(pass) ==
    AttachedTextures(pass) \cup ({pass.depthStencilAttachment.view.texture} \ {0})

\* C5: in every frame the five passes are recorded in the order scene,
\* vertical blur, horizontal blur/compose, paper surface, stylize, and every
\* render-target texture a pass reads (the paper-surface texture the compose
\* pass reads at binding 4 included) is written by a pass recorded earlier
\* in the same frame. Textures loaded from an image are written at creation.
C5_ReadsFollowWrites ==
    scene.name = "watercolor" =>
        \A f \in 1..Len(queue) :
            LET frame == queue[f].passes
            IN  /\ [k \in 1..Len(frame) |-> frame[k].pipeline.module] =
                       <<"scene", "mrtBlurV", "mrtBlurH", "surface", "stylize">>
                /\ \A k \in 1..Len(frame) :
                       \A t \in BoundTextures(frame[k]) :
                           textures[t].content # "image" =>
                               \E j \in 1..(k - 1) : t \in WrittenTextures(frame[j])
                /\ frame[3].bindGroup.entries[5].binding = 4
                /\ \E j \in 1..2 :
                       frame[3].bindGroup.entries[5].resource \in WrittenTextures(frame[j])

(***************************************************************************)
(* Claims about render_obj_model                                           *)
(***************************************************************************)

\* The place of the first op of that name in the last frame's ops, 0 if none.
OpIndex(name) ==
    IF \E k \in 1..Len(local.ops) : local.ops[k] = name
    THEN CHOOSE k \in 1..Len(local.ops) :
             local.ops[k] = name /\ \A j \in 1..(k - 1) : local.ops[j] # name
    ELSE 0

\* The last frame saw a size other than the tracked one, and no frame has
\* run since.
AfterResizeFrame ==
    /\ scene.name = "objModel"
    /\ scene.stage = "running"
    /\ scene.frame > 0
    /\ local.resized

\* In the frame that saw the other size: the surface was reconfigured, the
\* old depth texture destroyed and a new one created, all before the render
\* pass began, and the pass attaches the new one.
ResizeHandledBeforePass ==
    /\ 0 < OpIndex("configure")
    /\ OpIndex("configure") < OpIndex("destroyDepthTexture")
    /\ OpIndex("destroyDepthTexture") < OpIndex("createDepthTexture")
    /\ OpIndex("createDepthTexture") < OpIndex("beginRenderPass")
    /\ textures[local.oldDepthTexture].destroyed
    /\ local.depthTexture # local.oldDepthTexture
    /\ ~textures[local.depthTexture].destroyed
    /\ queue[Len(queue)].passes[1].depthStencilAttachment.view = View(local.depthTexture)

\* C7: when a frame observes a drawable size (w2, h2) that differs from the
\* tracked canvas size, that frame reconfigures the surface, destroys the old
\* depth texture and creates a new one before recording its render pass, and
\* the tracked canvas size equals (w2, h2) when the next frame begins.
C7_ResizeTracksObservedSize ==
    AfterResizeFrame =>
        /\ ResizeHandledBeforePass
        /\ canvas.width * Scale = local.currentCanvasWidth
        /\ canvas.height * Scale = local.currentCanvasHeight

(***************************************************************************)
(* Claims about the animated renderers                                     *)
(***************************************************************************)

Animated == scene.name \in {"objModel", "rotating", "video"}

\* How often an op of that name is in the last frame's ops.
OpCount(name) == Cardinality({k \in 1..Len(local.ops) : local.ops[k] = name})

\* C11: in each animated renderer the shader module and the render pipeline
\* are created exactly once, during setup, and that same pipeline object is
\* set on the pass of every frame; the number of pipelines created does not
\* grow with the number of frames drawn.
C11_PipelineBuiltOnce ==
    Animated =>
        /\ Len(pipelines) <= 1
        /\ scene.stage \in {"running", "awaitWorkDone"} => Len(pipelines) = 1
        /\ \A f \in 1..Len(queue) : queue[f].passes[1].pipeline.id = 1

\* C12: a buffer _createGPUBuffer has returned is never mapped again, nor
\* changed from the host; every buffer-to-buffer copy of a frame has as its
\* source a staging buffer created in that same frame with copy-source
\* usage and as its destination a buffer that existed before the frame and
\* was created with copy-destination usage.
C12_BuffersWrittenByStagingCopy ==
    [][/\ \A b \in 1..Len(buffers') : buffers'[b].mapState = "unmapped"
       /\ \A b \in 1..Len(buffers) : b <= Len(buffers') /\ buffers'[b] = buffers[b]
       /\ (Animated /\ Len(queue') > Len(queue)) =>
             LET copies == queue'[Len(queue')].copies
             IN  \A k \in 1..Len(copies) :
                     /\ copies[k].source > Len(buffers)
                     /\ copies[k].source <= Len(buffers')
                     /\ "COPY_SRC" \in buffers'[copies[k].source].usage
                     /\ copies[k].destination <= Len(buffers)
                     /\ "COPY_DST" \in buffers'[copies[k].destination].usage
                     /\ "UNIFORM" \in buffers'[copies[k].destination].usage]_vars

\* A second frame of the rotating renderer has copied staging buffers into
\* the persistent uniform buffers.
C12_Witness ==
    /\ scene.name = "rotating"
    /\ Len(queue) = 2
    /\ Len(queue[2].copies) = 2

\* A step in which a frame of the running renderer comes to its end.
FrameCompletes ==
    \/ scene.name \in {"objModel", "video"} /\ scene'.frame = scene.frame + 1
    \/ scene.name = "rotating" /\ scene.stage = "awaitWorkDone" /\ scene'.stage = "running"

\* C14: when the flag is set while an animated renderer runs, the next frame
\* the renderer draws observes it: a screenshot is captured in that frame
\* and the flag is false afterwards, whichever animated renderer runs.
C14_NextFrameTakesScreenshot ==
    [][(Animated /\ ctx.takeScreenshot /\ FrameCompletes) =>
          /\ ~ctx'.takeScreenshot
          /\ Len(captures') = Len(captures) + 1]_vars

\* C15: in the rotating renderer a capture comes after the frame's command
\* buffer was submitted and the work-done barrier has passed; the flag is
\* cleared before the capture starts, so the settings of the flag seen by
\* one frame yield exactly one capture; the next frame is requested only
\* after the barrier, so at most one frame is in flight.
C15_CaptureAfterBarrier ==
    scene.name = "rotating" =>
        /\ \A k \in 1..Len(captures) :
               /\ captures[k].submitted = captures[k].frame
               /\ captures[k].frame >= 1
               /\ ~captures[k].flag
        /\ Len(captures) + (IF ctx.takeScreenshot THEN 1 ELSE 0) = scene.sets
        /\ scene.pending + (IF scene.stage = "awaitWorkDone" THEN 1 ELSE 0) <= 1
        /\ Len(queue) = scene.frame
        /\ scene.stage \in {"running", "awaitWorkDone"} =>
               /\ OpCount("toBlob") > 0 =>
                      /\ OpIndex("submit") < OpIndex("workDone")
                      /\ OpIndex("workDone") < OpIndex("clearFlag")
                      /\ OpIndex("clearFlag") < OpIndex("toBlob")
               /\ OpCount("requestAnimationFrame") > 0 =>
                      /\ OpIndex("submit") < OpIndex("workDone")
                      /\ OpIndex("workDone") < OpIndex("requestAnimationFrame")

\* The flag was set twice and each setting has yielded its capture.
C15_Witness ==
    /\ scene.name = "rotating"
    /\ Len(captures) = 2
    /\ scene.sets = 2
    /\ ~ctx.takeScreenshot

\* C16: if fetching or decoding fails inside a scene renderer, the failure
\* reaches the caller of the scene renderer (the promise of the scene
\* function rejects), and no GPU resource was created, no command buffer
\* submitted and no frame callback scheduled.
C16_LoadFailureReachesCaller ==
    (Animated /\ scene.stage = "rejected") =>
        /\ scene.promise = "rejected"
        /\ scene.caller = "rejected"
        /\ buffers = <<>>
        /\ textures = <<>>
        /\ pipelines = <<>>
        /\ queue = <<>>
        /\ scene.pending = 0

\* C20: every run of an animated renderer's frame function records one
\* command buffer and submits it once, and requests the next animation frame
\* only after that submission, and only once.
C20_OneSubmitThenOneRequest ==
    (Animated /\ scene.stage \in {"running", "awaitWorkDone"}) =>
        /\ Len(queue) = scene.frame
        /\ scene.pending + (IF scene.stage = "awaitWorkDone" THEN 1 ELSE 0) = 1
        /\ scene.frame > 0 =>
               /\ OpCount("createCommandEncoder") = 1
               /\ OpCount("submit") = 1
               /\ OpCount("requestAnimationFrame") <= 1
               /\ OpCount("requestAnimationFrame") = 1 =>
                      OpIndex("submit") < OpIndex("requestAnimationFrame")
               /\ scene.stage = "running" => OpCount("requestAnimationFrame") = 1

\* An animated renderer has drawn its second frame and waits for the third.
C20_Witness ==
    /\ Animated
    /\ scene.frame = 2
    /\ scene.stage = "running"
    /\ Len(queue) = 2

(***************************************************************************)
(* Claims about the entries of _createUniformBindGroup                     *)
(***************************************************************************)

\* C19: for the descriptor at every position i, a buffer descriptor yields a
\* layout entry of type read-only storage if its readonly flag is set and of
\* type uniform otherwise; a texture descriptor yields a group entry holding
\* a view created in this call for it alone; a sampler descriptor yields a
\* group entry holding the sampler itself; layout entry and group entry at
\* position i are of the descriptor's kind, and the layout entry carries the
\* descriptor's visibility.
C19_EntriesFollowDescriptors ==
    bgResult.returned =>
        LET layoutEntries == bgResult.bindGroupLayout.entries
            bindGroupEntries == bgResult.bindGroup.entries
        IN  /\ Len(layoutEntries) = Len(bgInputs)
            /\ Len(bindGroupEntries) = Len(bgInputs)
            /\ \A k \in 1..Len(bgInputs) :
                   LET input == bgInputs[k]
                   IN  /\ layoutEntries[k].kind = input.type
                       /\ bindGroupEntries[k].kind = input.type
                       /\ layoutEntries[k].visibility = input.visibility
                       /\ bindGroupEntries[k].resource = input.resource
                       /\ input.type = "buffer" =>
                              /\ layoutEntries[k].bufferType =
                                     (IF input.readonly THEN "read-only-storage" ELSE "uniform")
                              /\ bindGroupEntries[k].view = 0
                       /\ input.type = "texture" =>
                              /\ bindGroupEntries[k].view \in 1..bgResult.viewsCreated
                              /\ \A j \in 1..Len(bgInputs) :
                                     j # k => bindGroupEntries[j].view # bindGroupEntries[k].view
                       /\ input.type = "sampler" => bindGroupEntries[k].view = 0

\* The call has returned for a list holding a read-only buffer, a plain
\* buffer and a texture.
C19_Witness ==
    /\ bgResult.returned
    /\ \E i, j, k \in 1..Len(bgInputs) :
           /\ bgInputs[i].type = "buffer" /\ bgInputs[i].readonly
           /\ bgInputs[j].type = "buffer" /\ ~bgInputs[j].readonly
           /\ bgInputs[k].type = "texture"

(***************************************************************************)
(* Claims about the kernel of the gaussian blur                            *)
(***************************************************************************)

\* The weights of the kernel buffer, read as single-precision bit patterns.
Uploaded == ReadMapped(buffers, local.kernelBuffer, "Float32Array")

\* C17: for any kernelSize k >= 0 the loop yields 2k + 1 weights; with
\* kernelSize 8 and sigma 8 these are 17 weights, w[i] = w[16 - i] for every
\* i, the centre w[8] strictly greater than every other; the weights the
\* kernel buffer holds are the raw samples, one by one, in single precision
\* (the centre is 1 / sqrt(2 pi sigma^2), not that value over the sum).
C17_KernelWeights ==
    (scene.name = "kernel" /\ scene.stage = "uploaded") =>
        LET k == scene.kernelSize
            w == Uploaded
        IN  /\ Len(local.kValues) = 2 * k + 1
            /\ Len(w) = 2 * k + 1
            /\ \A i \in 0..(2 * k) : w[i + 1] = w[2 * k - i + 1]
            /\ \A i \in 0..(2 * k) : w[i + 1] = Float32Pattern(local.kValues[i + 1], 0)
            /\ local.kValues[k + 1] =
                  (KernelUnit * SqrtUnit) \div Sqrt(TwoPi * scene.sigma * scene.sigma)
            /\ (k = KernelSize /\ scene.sigma = Sigma) =>
                  /\ Len(w) = 17
                  /\ \A i \in 0..16 : i # 8 => w[i + 1] < w[9]
                  /\ local.intensity < KernelUnit

\* The kernel of kernelSize 8 and sigma 8 is in the kernel buffer.
C17_Witness ==
    /\ scene.name = "kernel"
    /\ scene.stage = "uploaded"
    /\ scene.kernelSize = KernelSize
    /\ scene.sigma = Sigma
    /\ Len(Uploaded) = 17

(***************************************************************************)
(* Claims about the selection of effects                                   *)
(***************************************************************************)

\* C13: once a new effect is selected, a renderer started before draws at
\* most one more frame, and after that frame it has no frame callback
\* scheduled: only the renderer of the new selection goes on.
C13_OldRendererStops ==
    scene.name = "app" =>
        \A i \in 1..Len(scene.loops) :
            scene.loops[i].superseded =>
                /\ scene.loops[i].stale <= 1
                /\ scene.loops[i].stale = 1 => scene.loops[i].pending = 0

\* C18: whenever a command buffer is submitted, every pass of it that
\* attaches a depth texture attaches one that is not destroyed, that has the
\* canvas's current width and height, which are those of the pass's colour
\* attachment, and whose sample count is the context's MSAA level (1 if
\* none is configured).
C18_DepthTextureFitsPass ==
    [][Len(queue') > Len(queue) =>
          LET commandBuffer == queue'[Len(queue')]
          IN  \A p \in 1..Len(commandBuffer.passes) :
                  LET pass == commandBuffer.passes[p]
                      depth == pass.depthStencilAttachment.view.texture
                      colour == pass.colorAttachments[1].view.texture
                  IN  depth # 0 =>
                          /\ ~textures'[depth].destroyed
                          /\ textures'[depth].width = canvas'.width
                          /\ textures'[depth].height = canvas'.height
                          /\ textures'[depth].width = textures'[colour].width
                          /\ textures'[depth].height = textures'[colour].height
                          /\ textures'[depth].sampleCount =
                                 (IF ctx.msaa = Undefined THEN 1 ELSE ctx.msaa)]_vars

(***************************************************************************)
(* Claims about the video texture                                          *)
(***************************************************************************)

\* C21: the video texture is written last by the handler of the latest
\* time-update event: once every handler has finished, the texture holds
\* the frame of the most recent event.
C21_LastEventWins ==
    (scene.name = "video" /\ scene.stage = "running"
        /\ scene.events > 0 /\ local.decoding = {}) =>
        textures[local.videoTexture].content = VideoFrame(scene.events)

\* C24: no frame of the video-texture renderer samples the video texture
\* before a decoded video frame has been copied into it.
C24_FirstDrawAfterFirstCopy ==
    scene.name = "video" =>
        \A f \in 1..Len(queue) : queue[f].passes[1].draw.sampled # "none"

\* C25: the promise VideoLoader.create awaits is resolved exactly when both
\* a "playing" and a "timeupdate" event have fired, in either order: never
\* after one kind alone, however often; at the event that completes the
\* pair; and later events change nothing. create returns only thereafter.
C25_ResolvesOnBothEvents ==
    scene.name = "loader" =>
        LET both(n) == /\ \E k \in 1..n : local.history[k] = "playing"
                       /\ \E k \in 1..n : local.history[k] = "timeupdate"
        IN  /\ (local.resolvedAt # 0) <=> both(Len(local.history))
            /\ local.resolvedAt # 0 =>
                   /\ both(local.resolvedAt)
                   /\ ~both(local.resolvedAt - 1)
            /\ scene.stage = "returned" => scene.returnedAt >= local.resolvedAt
            /\ scene.stage = "returned" => local.resolvedAt # 0

\* "timeupdate" fired twice before "playing", and more events followed the
\* resolution.
C25_Witness ==
    /\ scene.name = "loader"
    /\ scene.stage = "returned"
    /\ local.resolvedAt = 3
    /\ local.history[1] = "timeupdate"
    /\ local.history[2] = "timeupdate"
    /\ Len(local.history) > 3

(***************************************************************************)
(* Claims about pipelines and the passes they are set on                   *)
(***************************************************************************)

\* C22: every pipeline set on a pass fits the pass: its multisample count is
\* the sample count of the pass's colour attachment, and it has a
\* depth-stencil state exactly when the pass has a depth-stencil attachment.
C22_PipelineFitsPass ==
    \A f \in 1..Len(queue) : \A p \in 1..Len(queue[f].passes) :
        LET pass == queue[f].passes[p]
        IN  /\ pass.pipeline.multisample =
                   textures[pass.colorAttachments[1].view.texture].sampleCount
            /\ pass.pipeline.depthStencil <=> (pass.depthStencilAttachment.view.texture # 0)

\* C27: the colour target format of every pipeline set on a pass is the
\* format of the texture the pass draws into: the format the surface was
\* configured with for the surface (or the multisampled texture resolved
\* into it), rgba8unorm for an offscreen texture.
C27_PipelineFormatIsTargetFormat ==
    \A f \in 1..Len(queue) : \A p \in 1..Len(queue[f].passes) :
        LET pass == queue[f].passes[p]
        IN  pass.pipeline.format = textures[pass.colorAttachments[1].view.texture].format

(***************************************************************************)
(* Claims about the frame loop of the mesh viewer                          *)
(***************************************************************************)

\* C23: in the animated mesh viewer at most one requested frame callback is
\* outstanding at any time, also when the pointer controller runs the frame
\* function in response to input.
C23_OneCallbackOutstanding ==
    scene.name = "objModel" => scene.pending <= 1

\* C26: resize handling in the animated mesh viewer is idempotent: after a
\* frame has handled a resize, a following frame that observes the same
\* client size times device pixel ratio detects no size difference (and so
\* does no reconfiguration and no depth-texture recreation), also when that
\* product is not an integer.
C26_ResizeIdempotent ==
    [][(/\ scene.name = "objModel"
        /\ scene.stage = "running"
        /\ scene.frame > 0
        /\ local.resized
        /\ Len(queue') = Len(queue) + 1
        /\ canvas.clientWidth * DevicePixelRatioOrOne(window) = local.currentCanvasWidth
        /\ canvas.clientHeight * DevicePixelRatioOrOne(window) = local.currentCanvasHeight)
       => /\ ~local'.resized
          /\ textures' = textures \/ local'.depthTexture = local.depthTexture]_vars

\* The destinations of the copies of a command buffer.
CopyDestinations(commandBuffer) ==
    {commandBuffer.copies[k].destination : k \in 1..Len(commandBuffer.copies)}

\* C28: in the animated mesh viewer, a frame that observes a drawable size
\* equal to the tracked canvas size leaves the canvas width and height, the
\* surface configuration, the depth texture and the projection-matrix buffer
\* unchanged (no reconfigure, no destroy, no projection copy is recorded),
\* while it still updates the model-view, normal, view-direction and
\* light-direction buffers.
C28_UnchangedSizeFrame ==
    [][(/\ scene.name = "objModel"
        /\ scene.stage = "running"
        /\ Len(queue') = Len(queue) + 1
        /\ canvas.clientWidth * DevicePixelRatioOrOne(window) = canvas.width * Scale
        /\ canvas.clientHeight * DevicePixelRatioOrOne(window) = canvas.height * Scale)
       => /\ canvas' = canvas
          /\ local'.depthTexture = local.depthTexture
          /\ textures'[local.depthTexture] = textures[local.depthTexture]
          /\ ~textures'[local.depthTexture].destroyed
          /\ \A k \in 1..Len(local'.ops) :
                 local'.ops[k] \notin {"setCanvasSize", "configure", "destroyDepthTexture",
                                       "createDepthTexture", "createProjectionUpdateBuffer"}
          /\ buffers'[local.projectionMatrixBuffer] = buffers[local.projectionMatrixBuffer]
          /\ CopyDestinations(queue'[Len(queue')]) =
                 {local.transformationMatrixBuffer, local.normalMatrixBuffer,
                  local.viewDirectionBuffer, local.lightDirectionBuffer}]_vars

\* The mesh viewer has drawn a frame that saw the tracked size, after a frame
\* that saw another one.
C28_Witness ==
    /\ scene.name = "objModel"
    /\ scene.stage = "running"
    /\ scene.frame = 2
    /\ ~local.resized
    /\ local.oldDepthTexture = local.depthTexture
    /\ Len(queue[2].copies) = 4
    /\ Len(queue[1].copies) = 5

\* The buffers a pass reads through its bind group.
BoundBuffers(pass) ==
    {pass.bindGroup.entries[k].resource :
        k \in {j \in 1..Len(pass.bindGroup.entries) : pass.bindGroup.entries[j].kind = "buffer"}}

\* C30: in every frame of the animated mesh viewers the buffer-to-buffer
\* copies that update the persistent uniform buffers are recorded in the same
\* command buffer as the frame's render pass and before that pass begins, and
\* each copy's byte count exceeds neither the size of its source nor that of
\* its destination; so the frame's draw reads the matrices of that frame.
C30_CopiesPrecedePass ==
    (scene.name \in {"objModel", "rotating"} /\ scene.stage \in {"running", "awaitWorkDone"}) =>
        /\ \A f \in 1..Len(queue) :
               /\ Len(queue[f].passes) = 1
               /\ {local.transformationMatrixBuffer, local.normalMatrixBuffer}
                      \subseteq CopyDestinations(queue[f])
               /\ CopyDestinations(queue[f]) \subseteq BoundBuffers(queue[f].passes[1])
               /\ \A k \in 1..Len(queue[f].copies) :
                      /\ queue[f].copies[k].size > 0
                      /\ queue[f].copies[k].size <= buffers[queue[f].copies[k].source].size
                      /\ queue[f].copies[k].size <= buffers[queue[f].copies[k].destination].size
        /\ scene.frame > 0 =>
               /\ OpCount("copyBufferToBuffer") = Len(queue[Len(queue)].copies)
               /\ \A k \in 1..Len(local.ops) :
                      local.ops[k] = "copyBufferToBuffer" =>
                          /\ OpIndex("createCommandEncoder") < k
                          /\ k < OpIndex("beginRenderPass")
               /\ OpIndex("beginRenderPass") < OpIndex("submit")

\* Both mesh viewers are covered: a frame of five copies (a resize seen) and
\* then one of four in render_obj_model, or a second frame of two copies in
\* the rotating renderer.
C30_Witness ==
    /\ scene.frame = 2
    /\ Len(queue) = 2
    /\ \/ /\ scene.name = "objModel"
          /\ Len(queue[1].copies) = 5
          /\ Len(queue[2].copies) = 4
          /\ queue[2].copies[3].size = 12
       \/ /\ scene.name = "rotating"
          /\ scene.stage = "awaitWorkDone"
          /\ queue[2].copies[2].size = 64

(***************************************************************************)
(* Claims about render_text                                                *)
(***************************************************************************)

\* n is a power of two.
IsPowerOfTwo(n) == \E k \in 0..(WordBits - 2) : n = Pow2(k)

\* x <= n, for a measured width x and a whole n.
AtMost(x, n) == x.whole < n \/ (x.whole = n /\ x.fraction = 0)

\* C29: for every measured text width w with 1 <= ceil(w) < 2^31 the texture
\* width the text renderer computes is positive and is the smallest power of
\* two that is >= ceil(w), so that a width that is a power of two already is
\* kept, and the horizontal texture coordinate w / textureWidth lies in
\* (0, 1].
C29_TextureWidthIsNextPowerOfTwo ==
    (scene.name = "text" /\ scene.stage # "called" /\ 1 <= Ceil(scene.textMeasure)) =>
        /\ local.nearestPowerof2 > 0
        /\ IsPowerOfTwo(local.nearestPowerof2)
        /\ Ceil(scene.textMeasure) <= local.nearestPowerof2
        /\ local.nearestPowerof2 \div 2 < Ceil(scene.textMeasure)
        /\ scene.stage = "returned"
        /\ textures[local.texture].width = local.nearestPowerof2
        /\ AtMost(local.w.width, local.w.over)

====
